---- MODULE Spec2Model ----
(***************************************************************************)
(* Bidirectional text layout core of the worksheet generator               *)
(* (src/worksheet_generator.py): the direction classifier, the per-run     *)
(* isolation / punctuation rules and the paragraph direction applier.      *)
(*                                                                         *)
(* A text is a sequence of Unicode code points (naturals).  A run is a     *)
(* python-docx Run reduced to what the code reads and writes:              *)
(*   text : the run's text                                                 *)
(*   omml : whether the run's XML holds an m:oMath descendant              *)
(*   rtl  : the w:rtl elements appended to the run's rPr, in order         *)
(* A paragraph is its runs plus the paragraph properties the code sets:    *)
(*   alignment, space_before, space_after,                                 *)
(*   bidi / bidiVisual : the number of w:bidi / w:bidiVisual elements      *)
(*                       appended to its pPr.                              *)
(*                                                                         *)
(* State: paragraph is the paragraph being formatted, calls the number of  *)
(* formatter calls made on it; last records the latest call (which         *)
(* formatter, the verdict it computed, its preserve_alignment argument)    *)
(* and prev the paragraph as that call found it.  ctext / cverdict are the *)
(* classifier's input and result when the classifier is run on its own.    *)
(* cvalue / cresult are the classifier's argument and outcome when it is   *)
(* handed an arbitrary Python value.                                       *)
(* fault / raised are the library calls that reject during a formatter     *)
(* call and whether the call raised.                                       *)
(* grid is the choice table of one multiple-choice question while          *)
(* MultipleChoiceRenderer fills it, site the renderer call site that made  *)
(* and formatted paragraph, doc the renderer calls of one generate() in    *)
(* the order they were made, threads the formatter calls that run          *)
(* concurrently, each on its own paragraph.                                *)
(* limit, job, pdf, mindmap, answers and service are the states of the     *)
(* application-level operations (src/app.py, src/mindmap_service.py and    *)
(* WorksheetService): the per-type question limiter, one create-all job,   *)
(* one DOCX to PDF conversion, one mindmap rendering, one answer removal   *)
(* and one validate / create pair of the worksheet service.                *)
(***************************************************************************)
EXTENDS Integers, Sequences, FiniteSets, TLC

VARIABLES paragraph, calls, last, prev, ctext, cverdict, cvalue, cresult,
          fault, raised, grid, site, doc, threads,
          limit, job, pdf, mindmap, answers, service

vars == <<paragraph, calls, last, prev, ctext, cverdict, cvalue, cresult,
          fault, raised, grid, site, doc, threads,
          limit, job, pdf, mindmap, answers, service>>

appVars == <<limit, job, pdf, mindmap, answers, service>>

paraVars == <<paragraph, calls, last, prev>>

classifyVars == <<ctext, cverdict, cvalue, cresult>>

faultVars == <<fault, raised>>

renderVars == <<grid, site, doc, threads>>

----------------------------------------------------------------------------
(* Bounds of the model *)

MaxRuns == 2

MaxChars == 3

MaxCalls == 2

MaxTextLen == 5

MaxValueLen == 3

MaxGridSide == 3

MaxChoices == 5

MaxQuestions == 4

(* Code points the run texts of the initial paragraphs are drawn from:     *)
(* ALEF, 'X', ',', '?' and ARABIC QUESTION MARK.                           *)
RunChars == {1575, 88, 44, 63, 1567}

(* Code points the classifier's input is drawn from: ALEF, 'X', '5', '_',  *)
(* ',' and U+FEFF (last code point of Arabic Presentation Forms-B).        *)
ClassifyChars == {1575, 88, 53, 95, 44, 65279}

(* Explicit text arguments handed to apply_smart_rtl_to_paragraph: the     *)
(* empty text, one text per verdict and the two boundary ratios.           *)
ArgTexts ==
    { <<>>, <<1575>>, <<88>>, <<1575, 88>>,
      <<1575, 88, 88, 88, 88>>, <<1575, 1575, 1575, 88, 88>> }

----------------------------------------------------------------------------
(* Unicode directional controls and the punctuation map *)

RLM == 8207

LRM == 8206

LRI == 8294

RLI == 8295

PDI == 8297

(* dict in insertion order: ',' -> U+060C, '?' -> U+061F, ';' -> U+061B *)
ARABIC_PUNCT_MAP == << <<44, 1548>>, <<63, 1567>>, <<59, 1563>> >>

----------------------------------------------------------------------------
(* Helper predicates on texts *)

HasChar(text, lo, hi) == \E i \in 1..Len(text) : lo <= text[i] /\ text[i] <= hi

(* re.search(r'[\u0590-\u08FF\uFB1D-\uFDFF\uFE70-\uFEFF]', text) *)
contains_arabic(text) ==
    IF Len(text) = 0 THEN FALSE
    ELSE \/ HasChar(text, 1424, 2303)
         \/ HasChar(text, 64285, 65023)
         \/ HasChar(text, 65136, 65279)

(* re.search(r'[A-Za-z0-9]', text) *)
contains_strong_latin(text) ==
    IF Len(text) = 0 THEN FALSE
    ELSE \/ HasChar(text, 65, 90)
         \/ HasChar(text, 97, 122)
         \/ HasChar(text, 48, 57)

run_contains_omml(run) == run.omml

(* str.replace(k, v) for one-character k and v *)
Replace(text, k, v) == [i \in 1..Len(text) |-> IF text[i] = k THEN v ELSE text[i]]

(* k in text *)
InText(k, text) == \E i \in 1..Len(text) : text[i] = k

----------------------------------------------------------------------------
(* DirectionClassifier *)

(* the for loop of detect_text_direction: <<arabic_count, latin_count>> *)
RECURSIVE ScanCounts(_, _, _, _)
ScanCounts(text, i, arabic_count, latin_count) ==
    IF i > Len(text) THEN <<arabic_count, latin_count>>
    ELSE LET o == text[i] IN
         IF (1424 <= o /\ o <= 2303) \/ (64285 <= o /\ o <= 65276)
         THEN ScanCounts(text, i + 1, arabic_count + 1, latin_count)
         ELSE IF (65 <= o /\ o <= 122) \/ (48 <= o /\ o <= 57)
         THEN ScanCounts(text, i + 1, arabic_count, latin_count + 1)
         ELSE ScanCounts(text, i + 1, arabic_count, latin_count)

(* arabic_ratio > 0.6 and arabic_ratio < 0.2 on the quotient               *)
(* arabic_count / total, compared exactly: 10*a > 6*total, 10*a < 2*total  *)
Verdict_inclusive(arabic_count, total) ==
    IF total = 0 THEN "neutral"
    ELSE IF 10 * arabic_count >= 6 * total THEN "rtl"
    ELSE IF 10 * arabic_count <= 2 * total THEN "ltr"
    ELSE "mixed"

Verdict(arabic_count, total) ==
    IF total = 0 THEN "neutral"
    ELSE IF 10 * arabic_count > 6 * total THEN "rtl"
    ELSE IF 10 * arabic_count < 2 * total THEN "ltr"
    ELSE "mixed"

detect_text_direction(text) ==
    IF Len(text) = 0 THEN "neutral"
    ELSE LET c == ScanCounts(text, 1, 0, 0) IN Verdict(c[1], c[1] + c[2])

(* Python values as the classifier can be handed them:                     *)
(*   [kind |-> "str", val |-> text], [kind |-> "NoneType"],                *)
(*   [kind |-> "int", val |-> n], [kind |-> "bool", val |-> b],            *)
(*   [kind |-> "list", val |-> sequence of str and int values]             *)
(* bool(value), as 'if not text' evaluates it *)
Truthy(v) ==
    CASE v.kind = "str" -> Len(v.val) > 0
      [] v.kind = "NoneType" -> FALSE
      [] v.kind = "int" -> v.val # 0
      [] v.kind = "bool" -> v.val
      [] v.kind = "list" -> Len(v.val) > 0

(* ord(ch) accepts a string of length one and nothing else *)
OrdAccepts(ch) == ch.kind = "str" /\ Len(ch.val) = 1

(* detect_text_direction on any value: its verdict, or "TypeError" when    *)
(* 'for ch in text' or 'ord(ch)' raises                                    *)
detect_text_direction_of(v) ==
    IF ~Truthy(v) THEN "neutral"
    ELSE CASE v.kind = "str" -> detect_text_direction(v.val)
           [] v.kind = "list" ->
                IF \A i \in 1..Len(v.val) : OrdAccepts(v.val[i])
                THEN detect_text_direction([i \in 1..Len(v.val) |-> v.val[i].val[1]])
                ELSE "TypeError"
           [] OTHER -> "TypeError"

----------------------------------------------------------------------------
(* Run-level operations of the document library, as the code uses them *)

(* run.text = t: python-docx's setter clears the run's content (every     *)
(* child element but rPr, an embedded math object included) and writes t. *)
SetRunText(run, t) == [run EXCEPT !.text = t, !.omml = FALSE]

(* appends <w:rtl w:val="1|0"/> to the run's rPr *)
set_run_rtl(run, on) == [run EXCEPT !.rtl = Append(@, IF on THEN "1" ELSE "0")]

----------------------------------------------------------------------------
(* ParagraphDirectionApplier *)

format_paragraph_rtl_ignoring_preserve(p, preserve_alignment) ==
    [p EXCEPT !.bidi = @ + 1,
              !.space_after = "Pt0",
              !.space_before = "Pt0",
              !.alignment = "LEFT"]

format_paragraph_rtl(p, preserve_alignment) ==
    [p EXCEPT !.bidi = @ + 1,
              !.space_after = "Pt0",
              !.space_before = "Pt0",
              !.alignment = IF ~preserve_alignment THEN "LEFT" ELSE @]

(* rtl branch, punctuation: for k, v in ARABIC_PUNCT_MAP.items():          *)
(*     if k in run.text: run.text = run.text.replace(k, v)                 *)
RECURSIVE RtlReplacePunct(_, _)
RtlReplacePunct(run, n) ==
    IF n > Len(ARABIC_PUNCT_MAP) THEN run
    ELSE LET k == ARABIC_PUNCT_MAP[n][1]
             v == ARABIC_PUNCT_MAP[n][2]
         IN  RtlReplacePunct(
                 IF InText(k, run.text) THEN SetRunText(run, Replace(run.text, k, v))
                 ELSE run,
                 n + 1)

(* mixed branch, punctuation: text_run = text_run.replace(k, v) for every  *)
(* item of the map                                                         *)
ReplaceAllPunct_commaOnly(text_run, n) ==
    Replace(text_run, ARABIC_PUNCT_MAP[1][1], ARABIC_PUNCT_MAP[1][2])

RECURSIVE ReplaceAllPunct(_, _)
ReplaceAllPunct(text_run, n) ==
    IF n > Len(ARABIC_PUNCT_MAP) THEN text_run
    ELSE ReplaceAllPunct(
             Replace(text_run, ARABIC_PUNCT_MAP[n][1], ARABIC_PUNCT_MAP[n][2]), n + 1)

RtlBranchRun_noIsolate(run) ==
    LET r1 == IF contains_arabic(run.text) THEN RtlReplacePunct(run, 1) ELSE run
    IN  IF contains_arabic(r1.text) /\ ~contains_strong_latin(r1.text)
        THEN set_run_rtl(r1, TRUE)
        ELSE r1

(* body of the rtl branch's loop over paragraph.runs *)
RtlBranchRun(run) ==
    LET r1 == IF contains_arabic(run.text) THEN RtlReplacePunct(run, 1) ELSE run
        r2 == IF contains_strong_latin(r1.text) \/ run_contains_omml(r1)
              THEN LET w == SetRunText(r1, <<LRI>> \o r1.text \o <<PDI>>)
                   IN  IF run_contains_omml(w)
                       THEN SetRunText(w, w.text \o <<RLM>>)
                       ELSE w
              ELSE r1
    IN  IF contains_arabic(r2.text) /\ ~contains_strong_latin(r2.text)
        THEN set_run_rtl(r2, TRUE)
        ELSE r2

MixedBranchRun_rtlForAnyArabic(run) ==
    LET t0 == run.text
        t1 == IF contains_arabic(t0) /\ ~contains_strong_latin(t0)
              THEN ReplaceAllPunct(t0, 1)
              ELSE t0
        t2 == IF contains_strong_latin(t1) \/ run_contains_omml(run)
              THEN LET w == <<LRI>> \o t1 \o <<PDI>>
                   IN  IF run_contains_omml(run) THEN w \o <<RLM>> ELSE w
              ELSE t1
        r3 == IF contains_arabic(t2) THEN set_run_rtl(run, TRUE) ELSE run
    IN  SetRunText(r3, t2)

MixedBranchRun_lrmAnchor(run) ==
    LET t0 == run.text
        t1 == IF contains_arabic(t0) /\ ~contains_strong_latin(t0)
              THEN ReplaceAllPunct(t0, 1)
              ELSE t0
        t2 == IF contains_strong_latin(t1) \/ run_contains_omml(run)
              THEN <<LRI>> \o t1 \o <<PDI, LRM>>
              ELSE t1
        r3 == IF contains_arabic(t2) /\ ~contains_strong_latin(t2)
              THEN set_run_rtl(run, TRUE)
              ELSE run
    IN  SetRunText(r3, t2)

(* body of the mixed branch's loop over paragraph.runs *)
MixedBranchRun(run) ==
    LET t0 == run.text
        t1 == IF contains_arabic(t0) /\ ~contains_strong_latin(t0)
              THEN ReplaceAllPunct(t0, 1)
              ELSE t0
        t2 == IF contains_strong_latin(t1) \/ run_contains_omml(run)
              THEN LET w == <<LRI>> \o t1 \o <<PDI>>
                   IN  IF run_contains_omml(run) THEN w \o <<RLM>> ELSE w
              ELSE t1
        r3 == IF contains_arabic(t2) /\ ~contains_strong_latin(t2)
              THEN set_run_rtl(run, TRUE)
              ELSE run
    IN  SetRunText(r3, t2)

LtrBranchRun_noPop(run) ==
    IF contains_arabic(run.text) /\ ~contains_strong_latin(run.text)
    THEN set_run_rtl(SetRunText(run, <<RLI>> \o run.text), TRUE)
    ELSE run

LtrBranchRun_anyArabic(run) ==
    IF contains_arabic(run.text)
    THEN set_run_rtl(SetRunText(run, <<RLI>> \o run.text \o <<PDI>>), TRUE)
    ELSE run

(* body of the ltr branch's loop over paragraph.runs *)
LtrBranchRun(run) ==
    IF contains_arabic(run.text) /\ ~contains_strong_latin(run.text)
    THEN set_run_rtl(SetRunText(run, <<RLI>> \o run.text \o <<PDI>>), TRUE)
    ELSE run

RtlBranch(p, preserve_alignment) ==
    LET q == format_paragraph_rtl(p, preserve_alignment)
    IN  [q EXCEPT !.runs = [i \in 1..Len(q.runs) |-> RtlBranchRun(q.runs[i])]]

MixedBranch_noVisual(p, preserve_alignment) ==
    LET q == format_paragraph_rtl(p, preserve_alignment)
    IN  [q EXCEPT !.runs = [i \in 1..Len(q.runs) |-> MixedBranchRun(q.runs[i])]]

MixedBranch(p, preserve_alignment) ==
    LET q == format_paragraph_rtl(p, preserve_alignment)
    IN  [q EXCEPT !.runs = [i \in 1..Len(q.runs) |-> MixedBranchRun(q.runs[i])],
                  !.bidiVisual = @ + 1]

LtrBranch(p, preserve_alignment) ==
    [p EXCEPT !.space_after = "Pt0",
              !.space_before = "Pt0",
              !.alignment = IF ~preserve_alignment THEN "LEFT" ELSE @,
              !.runs = [i \in 1..Len(p.runs) |-> LtrBranchRun(p.runs[i])]]

NeutralBranch_forcesLeft(p) ==
    [p EXCEPT !.space_after = "Pt0", !.space_before = "Pt0", !.alignment = "LEFT"]

NeutralBranch(p) ==
    [p EXCEPT !.space_after = "Pt0", !.space_before = "Pt0"]

(* ''.join([r.text for r in paragraph.runs]) *)
RECURSIVE JoinRunTexts(_, _)
JoinRunTexts(runs, i) ==
    IF i > Len(runs) THEN <<>> ELSE runs[i].text \o JoinRunTexts(runs, i + 1)

(* the text the verdict is computed from; arg is <<>> for text=None and    *)
(* <<t>> for an explicit text t                                            *)
EffectiveText(p, arg) == IF arg = <<>> THEN JoinRunTexts(p.runs, 1) ELSE arg[1]

apply_smart_rtl_to_paragraph(p, arg, preserve_alignment) ==
    LET direction == detect_text_direction(EffectiveText(p, arg))
    IN  IF direction = "rtl" THEN RtlBranch(p, preserve_alignment)
        ELSE IF direction = "mixed" THEN MixedBranch(p, preserve_alignment)
        ELSE IF direction = "ltr" THEN LtrBranch(p, preserve_alignment)
        ELSE NeutralBranch(p)

apply_rtl_to_paragraph(p, preserve_alignment) ==
    format_paragraph_rtl(p, preserve_alignment)

----------------------------------------------------------------------------
(* The applier when library calls reject.  f.para holds the paragraph      *)
(* properties ("bidi", "bidiVisual") whose element the library refuses to  *)
(* add (paragraph._element.get_or_add_pPr() or pPr.append(..) raises),     *)
(* f.runs the indexes of the runs on which set_run_rtl raises.  An outcome *)
(* is the paragraph as the call leaves it and whether the call raised.     *)

(* try: set_run_rtl(run, True)  except Exception: pass                     *)
(* done is the run as the loop body leaves it when nothing rejects         *)
GuardedRun(run, done, rejects) ==
    IF rejects THEN [done EXCEPT !.rtl = run.rtl] ELSE done

(* format_paragraph_rtl: get_or_add_pPr and pPr.append(bidi) are outside   *)
(* its try block and raise before spacing or alignment are touched         *)
FormatOutcome(p, preserve_alignment, f) ==
    IF "bidi" \in f.para
    THEN [p |-> p, raised |-> TRUE]
    ELSE [p |-> format_paragraph_rtl(p, preserve_alignment), raised |-> FALSE]

RtlOutcome(p, preserve_alignment, f) ==
    LET o == FormatOutcome(p, preserve_alignment, f)
        q == o.p
    IN  IF o.raised THEN o
        ELSE [p |-> [q EXCEPT !.runs = [i \in 1..Len(q.runs) |->
                        GuardedRun(q.runs[i], RtlBranchRun(q.runs[i]), i \in f.runs)]],
              raised |-> FALSE]

MixedOutcome(p, preserve_alignment, f) ==
    LET o == FormatOutcome(p, preserve_alignment, f)
        q == o.p
        r == [q EXCEPT !.runs = [i \in 1..Len(q.runs) |->
                        GuardedRun(q.runs[i], MixedBranchRun(q.runs[i]), i \in f.runs)]]
    IN  IF o.raised THEN o
        ELSE IF "bidiVisual" \in f.para
        THEN [p |-> r, raised |-> TRUE]
        ELSE [p |-> [r EXCEPT !.bidiVisual = @ + 1], raised |-> FALSE]

LtrOutcome(p, preserve_alignment, f) ==
    [p |-> [p EXCEPT !.space_after = "Pt0",
                     !.space_before = "Pt0",
                     !.alignment = IF ~preserve_alignment THEN "LEFT" ELSE @,
                     !.runs = [i \in 1..Len(p.runs) |->
                        GuardedRun(p.runs[i], LtrBranchRun(p.runs[i]), i \in f.runs)]],
     raised |-> FALSE]

SmartOutcome(p, arg, preserve_alignment, f) ==
    LET direction == detect_text_direction(EffectiveText(p, arg))
    IN  IF direction = "rtl" THEN RtlOutcome(p, preserve_alignment, f)
        ELSE IF direction = "mixed" THEN MixedOutcome(p, preserve_alignment, f)
        ELSE IF direction = "ltr" THEN LtrOutcome(p, preserve_alignment, f)
        ELSE [p |-> NeutralBranch(p), raised |-> FALSE]

----------------------------------------------------------------------------
(* State machine of one paragraph handed to the direction core *)

RECURSIVE TextsUpTo(_, _)
TextsUpTo(chars, n) ==
    IF n = 0 THEN {<<>>}
    ELSE LET shorter == TextsUpTo(chars, n - 1)
         IN  shorter \cup {Append(t, c) : t \in shorter, c \in chars}

(* a run as paragraph.add_run(text) makes it, with or without a math       *)
(* object, its text at most n characters long                              *)
NewRuns(n) ==
    {[text |-> t, omml |-> m, rtl |-> <<>>] : t \in TextsUpTo(RunChars, n), m \in BOOLEAN}

(* the run sequences of at most n runs and at most budget characters *)
RECURSIVE RunSeqs(_, _)
RunSeqs(n, budget) ==
    IF n = 0 THEN {<<>>}
    ELSE {<<>>} \cup
         UNION {{<<r>> \o rest : rest \in RunSeqs(n - 1, budget - Len(r.text))} :
                    r \in NewRuns(budget)}

(* a paragraph as a renderer hands it over: centered, spacing not yet set, *)
(* no direction property                                                   *)
NewParagraphs(n, budget) ==
    {[runs |-> rs, alignment |-> "CENTER", space_before |-> "unset",
      space_after |-> "unset", bidi |-> 0, bidiVisual |-> 0] :
        rs \in RunSeqs(n, budget)}

NoCall == [op |-> "none", direction |-> "none", preserve |-> FALSE]

(* no library call rejects *)
NoFault == [para |-> {}, runs |-> {}]

(* values of the variables a state machine does not use *)
ClassifyIdle ==
    /\ ctext = <<>>
    /\ cverdict = "none"
    /\ cvalue = [kind |-> "NoneType"]
    /\ cresult = "none"

FaultIdle == fault = NoFault /\ raised = FALSE

GridIdle == grid = [pc |-> "idle"]

SiteIdle == site = "none"

DocIdle == doc = [pc |-> "idle"]

ThreadsIdle == threads = <<>>

RenderIdle == GridIdle /\ SiteIdle /\ DocIdle /\ ThreadsIdle

LimitIdle == limit = [pc |-> "idle"]
JobIdle == job = [pc |-> "idle"]
PdfIdle == pdf = [pc |-> "idle"]
MindmapIdle == mindmap = [pc |-> "idle"]
AnswersIdle == answers = [pc |-> "idle"]
ServiceIdle == service = [pc |-> "idle"]
AppIdle ==
    /\ LimitIdle /\ JobIdle /\ PdfIdle
    /\ MindmapIdle /\ AnswersIdle /\ ServiceIdle

Init ==
    /\ paragraph \in NewParagraphs(MaxRuns, MaxChars)
    /\ calls = 0
    /\ last = NoCall
    /\ prev = paragraph
    /\ ClassifyIdle
    /\ FaultIdle
    /\ AppIdle
    /\ RenderIdle

(* ArabicTextFormatter.apply_smart_rtl_to_paragraph(paragraph, text, preserve) *)
ApplySmart ==
    /\ calls < MaxCalls
    /\ \E arg \in {<<>>} \cup {<<t>> : t \in ArgTexts}, preserve \in BOOLEAN :
          /\ paragraph' = apply_smart_rtl_to_paragraph(paragraph, arg, preserve)
          /\ last' = [op |-> "smart",
                      direction |-> detect_text_direction(EffectiveText(paragraph, arg)),
                      preserve |-> preserve]
    /\ prev' = paragraph
    /\ calls' = calls + 1
    /\ UNCHANGED <<appVars, classifyVars, faultVars, renderVars>>

(* ArabicTextFormatter.apply_rtl_to_paragraph(paragraph, preserve) *)
ApplyRtl ==
    /\ calls < MaxCalls
    /\ \E preserve \in BOOLEAN :
          /\ paragraph' = apply_rtl_to_paragraph(paragraph, preserve)
          /\ last' = [op |-> "rtl", direction |-> "none", preserve |-> preserve]
    /\ prev' = paragraph
    /\ calls' = calls + 1
    /\ UNCHANGED <<appVars, classifyVars, faultVars, renderVars>>

Next == ApplySmart \/ ApplyRtl

Spec == Init /\ [][Next]_vars

----------------------------------------------------------------------------
(* State machine of the classifier alone: a text grown one character at a  *)
(* time, classified after every character                                  *)

InitClassify ==
    /\ ctext = <<>>
    /\ cverdict = detect_text_direction(<<>>)
    /\ paragraph = [runs |-> <<>>, alignment |-> "CENTER", space_before |-> "unset",
                    space_after |-> "unset", bidi |-> 0, bidiVisual |-> 0]
    /\ calls = 0
    /\ last = NoCall
    /\ prev = paragraph
    /\ FaultIdle
    /\ AppIdle
    /\ RenderIdle
    /\ cvalue = [kind |-> "NoneType"]
    /\ cresult = "none"

Classify ==
    /\ Len(ctext) < MaxTextLen
    /\ \E c \in ClassifyChars :
          /\ ctext' = Append(ctext, c)
          /\ cverdict' = detect_text_direction(ctext')
    /\ UNCHANGED <<appVars, paraVars, faultVars, renderVars, cvalue, cresult>>

NextClassify == Classify

SpecClassify == InitClassify /\ [][NextClassify]_vars

----------------------------------------------------------------------------
(* State machine of one formatter call on a paragraph holding the text     *)
(* "<qaf yeh meem teh-marbuta> X <teh seen alef waw yeh> 10", cut into     *)
(* runs at any of its inner positions                                      *)

ScenarioText ==
    <<1602, 1610, 1605, 1577, 32, 88, 32, 1578, 1587, 1575, 1608, 1610, 32, 49, 48>>

(* the runs of text from position i on, cut after every position in cuts *)
RECURSIVE CutRuns(_, _, _)
CutRuns(text, cuts, i) ==
    IF i > Len(text) THEN <<>>
    ELSE LET later == {c \in cuts : c >= i}
             j == IF later = {} THEN Len(text)
                  ELSE CHOOSE c \in later : \A d \in later : c <= d
         IN  <<[text |-> SubSeq(text, i, j), omml |-> FALSE, rtl |-> <<>>]>>
                 \o CutRuns(text, cuts, j + 1)

ScenarioParagraphs(text) ==
    {[runs |-> CutRuns(text, cuts, 1), alignment |-> "CENTER",
      space_before |-> "unset", space_after |-> "unset", bidi |-> 0, bidiVisual |-> 0] :
        cuts \in SUBSET (1..(Len(text) - 1))}

InitScenario ==
    /\ paragraph \in ScenarioParagraphs(ScenarioText)
    /\ calls = 0
    /\ last = NoCall
    /\ prev = paragraph
    /\ ClassifyIdle
    /\ FaultIdle
    /\ AppIdle
    /\ RenderIdle

ApplySmartScenario ==
    /\ calls = 0
    /\ \E arg \in {<<>>, <<ScenarioText>>}, preserve \in BOOLEAN :
          /\ paragraph' = apply_smart_rtl_to_paragraph(paragraph, arg, preserve)
          /\ last' = [op |-> "smart",
                      direction |-> detect_text_direction(EffectiveText(paragraph, arg)),
                      preserve |-> preserve]
    /\ prev' = paragraph
    /\ calls' = calls + 1
    /\ UNCHANGED <<appVars, classifyVars, faultVars, renderVars>>

NextScenario == ApplySmartScenario

SpecScenario == InitScenario /\ [][NextScenario]_vars

----------------------------------------------------------------------------
(* State machine of the classifier handed arbitrary values *)

Str(t) == [kind |-> "str", val |-> t]

ListItems == {Str(<<1575>>), Str(<<88>>), Str(<<>>), [kind |-> "int", val |-> 5]}

RECURSIVE ListsUpTo(_)
ListsUpTo(n) ==
    IF n = 0 THEN {<<>>}
    ELSE LET shorter == ListsUpTo(n - 1)
         IN  shorter \cup {Append(l, x) : l \in shorter, x \in ListItems}

PyValues(n) ==
    {Str(t) : t \in TextsUpTo(ClassifyChars, n)}
        \cup {[kind |-> "NoneType"]}
        \cup {[kind |-> "int", val |-> k] : k \in {0, 1, 5}}
        \cup {[kind |-> "bool", val |-> b] : b \in BOOLEAN}
        \cup {[kind |-> "list", val |-> l] : l \in ListsUpTo(n)}

InitValue ==
    /\ cvalue = [kind |-> "NoneType"]
    /\ cresult = detect_text_direction_of(cvalue)
    /\ ctext = <<>>
    /\ cverdict = "none"
    /\ paragraph = [runs |-> <<>>, alignment |-> "CENTER", space_before |-> "unset",
                    space_after |-> "unset", bidi |-> 0, bidiVisual |-> 0]
    /\ calls = 0
    /\ last = NoCall
    /\ prev = paragraph
    /\ FaultIdle
    /\ AppIdle
    /\ RenderIdle

(* ArabicTextFormatter.detect_text_direction(value) *)
ClassifyValue ==
    /\ \E v \in PyValues(MaxValueLen) :
          /\ cvalue' = v
          /\ cresult' = detect_text_direction_of(v)
    /\ UNCHANGED <<appVars, paraVars, faultVars, renderVars, ctext, cverdict>>

NextValue == ClassifyValue

SpecValue == InitValue /\ [][NextValue]_vars

----------------------------------------------------------------------------
(* State machine of one formatter call during which library calls reject *)

Faults(p) ==
    {[para |-> ps, runs |-> rs] :
        ps \in SUBSET {"bidi", "bidiVisual"}, rs \in SUBSET (1..Len(p.runs))}

InitFault ==
    /\ paragraph \in NewParagraphs(MaxRuns, MaxChars)
    /\ calls = 0
    /\ last = NoCall
    /\ prev = paragraph
    /\ FaultIdle
    /\ AppIdle
    /\ RenderIdle
    /\ ClassifyIdle

ApplySmartRejecting ==
    /\ calls = 0
    /\ \E arg \in {<<>>} \cup {<<t>> : t \in ArgTexts}, preserve \in BOOLEAN,
          f \in Faults(paragraph) :
          LET o == SmartOutcome(paragraph, arg, preserve, f)
          IN  /\ paragraph' = o.p
              /\ raised' = o.raised
              /\ fault' = f
              /\ last' = [op |-> "smart",
                          direction |-> detect_text_direction(EffectiveText(paragraph, arg)),
                          preserve |-> preserve]
    /\ prev' = paragraph
    /\ calls' = calls + 1
    /\ UNCHANGED <<appVars, classifyVars, renderVars>>

NextFault == ApplySmartRejecting

SpecFault == InitFault /\ [][NextFault]_vars

----------------------------------------------------------------------------
(* State machine of MultipleChoiceRenderer filling the choice table of one *)
(* question.  A cell is <<row, col>>, counted from 0 like the table's;     *)
(* an optional value is <<>> for None and <<v>> for v.  What the formatter *)
(* does to the paragraph of a choice cell is the renderer machine's.       *)

Min(a, b) == IF a < b THEN a ELSE b

cell_positions_leftToRight(rows, cols) ==
    IF rows = 2 /\ cols = 2
    THEN << <<0, 0>>, <<0, 1>>, <<1, 0>>, <<1, 1>> >>
    ELSE [k \in 1..(rows * cols) |-> <<(k - 1) \div cols, (k - 1) % cols>>]

(* cell_positions of _render_choices_grid: the literal list of the 2x2     *)
(* grid, else for r in range(rows), for c in cols_order with               *)
(* cols_order = [cols-1, .., 0]                                            *)
cell_positions(rows, cols) ==
    IF rows = 2 /\ cols = 2
    THEN << <<0, 1>>, <<0, 0>>, <<1, 1>>, <<1, 0>> >>
    ELSE LET cols_order == [j \in 1..cols |-> cols - j]
         IN  [k \in 1..(rows * cols) |->
                <<(k - 1) \div cols, cols_order[((k - 1) % cols) + 1]>>]

EmptyCell == [choice |-> <<>>, background |-> "none", bold |-> FALSE]

render_single_choice_truthyKey(index, answer_key) ==
    IF answer_key # <<>> /\ answer_key[1] # 0 /\ index = answer_key[1]
    THEN [choice |-> <<index>>, background |-> "yellow_highlight", bold |-> TRUE]
    ELSE [choice |-> <<index>>, background |-> "light_gray", bold |-> FALSE]

(* _render_single_choice once the label has been looked up: the cell holds *)
(* the choice; 'if answer_key is not None and index == answer_key' picks   *)
(* the background and makes the choice run bold                            *)
render_single_choice(index, answer_key) ==
    IF answer_key # <<>> /\ index = answer_key[1]
    THEN [choice |-> <<index>>, background |-> "yellow_highlight", bold |-> TRUE]
    ELSE [choice |-> <<index>>, background |-> "light_gray", bold |-> FALSE]

(* the values MultipleChoiceQuestion.__post_init__ lets through *)
AnswerKeys == {<<>>} \cup {<<k>> : k \in 0..3}

InitGrid ==
    /\ \E rows \in 1..MaxGridSide, cols \in 1..MaxGridSide,
          nchoices \in 0..MaxChoices, nlabels \in 0..MaxChoices,
          answer_key \in AnswerKeys :
          grid = [pc |-> "loop", rows |-> rows, cols |-> cols,
                  nchoices |-> nchoices, nlabels |-> nlabels,
                  answer_key |-> answer_key, i |-> 0,
                  cells |-> [c \in (0..(rows - 1)) \X (0..(cols - 1)) |-> EmptyCell],
                  order |-> <<>>]
    /\ paragraph = [runs |-> <<>>, alignment |-> "CENTER", space_before |-> "unset",
                    space_after |-> "unset", bidi |-> 0, bidiVisual |-> 0]
    /\ calls = 0
    /\ last = NoCall
    /\ prev = paragraph
    /\ ClassifyIdle
    /\ FaultIdle
    /\ AppIdle
    /\ SiteIdle /\ DocIdle /\ ThreadsIdle

(* one iteration of 'for i, ((row, col), choice) in enumerate(zip(         *)
(* cell_positions, question.choices))': the label lookup                   *)
(* choice_labels.numbers[index] raises IndexError past the end of the      *)
(* label list                                                              *)
RenderChoice ==
    /\ grid.pc = "loop"
    /\ grid.i < Min(grid.rows * grid.cols, grid.nchoices)
    /\ IF grid.i >= grid.nlabels
       THEN grid' = [grid EXCEPT !.pc = "raised"]
       ELSE grid' = [grid EXCEPT
                        !.cells[cell_positions(grid.rows, grid.cols)[grid.i + 1]] =
                            render_single_choice(grid.i, grid.answer_key),
                        !.order = Append(@, grid.i),
                        !.i = @ + 1]
    /\ UNCHANGED <<appVars, paraVars, classifyVars, faultVars, site, doc, threads>>

(* zip is exhausted: _render_choices_grid returns *)
FinishGrid ==
    /\ grid.pc = "loop"
    /\ grid.i = Min(grid.rows * grid.cols, grid.nchoices)
    /\ grid' = [grid EXCEPT !.pc = "done"]
    /\ UNCHANGED <<appVars, paraVars, classifyVars, faultVars, site, doc, threads>>

NextGrid == RenderChoice \/ FinishGrid

SpecGrid == InitGrid /\ [][NextGrid]_vars

----------------------------------------------------------------------------
(* State machine of the renderers' paragraphs: each action is one renderer *)
(* making a paragraph for a text (alignment, runs) and handing it to the   *)
(* formatter the way its call site does; prev is the paragraph as handed   *)
(* over, paragraph the paragraph after the call and site the call site.    *)

RunOf(text) == [text |-> text, omml |-> FALSE, rtl |-> <<>>]

ParagraphOf(alignment, runs) ==
    [runs |-> runs, alignment |-> alignment, space_before |-> "unset",
     space_after |-> "unset", bidi |-> 0, bidiVisual |-> 0]

(* GeneralLabels.section_icon: GEAR, space *)
section_icon == <<9881, 32>>

(* f" {question.number} " for question 1 *)
number_run == <<32, 49, 32>>

(* ChoiceLabels.numbers[0] + ChoiceLabels.separator: ARABIC-INDIC DIGIT    *)
(* ONE, " - "                                                              *)
label_run == <<1633, 32, 45, 32>>

RenderTexts(n) == TextsUpTo(RunChars, n)

InitRender ==
    /\ site = "none"
    /\ paragraph = ParagraphOf("CENTER", <<>>)
    /\ calls = 0
    /\ last = NoCall
    /\ prev = paragraph
    /\ ClassifyIdle
    /\ FaultIdle
    /\ AppIdle
    /\ GridIdle /\ DocIdle /\ ThreadsIdle

(* HeaderRenderer._render_title *)
RenderTitle ==
    /\ \E title \in RenderTexts(MaxChars) :
          LET p == ParagraphOf("CENTER", <<RunOf(title)>>)
          IN  /\ prev' = p
              /\ paragraph' = apply_smart_rtl_to_paragraph(p, <<title>>, TRUE)
              /\ last' = [op |-> "smart", direction |-> detect_text_direction(title),
                        preserve |-> TRUE]
    /\ site' = "title"
    /\ calls' = 1
    /\ UNCHANGED <<appVars, classifyVars, faultVars, grid, doc, threads>>

(* SectionHeaderRenderer.render *)
RenderSectionHeader ==
    /\ \E instruction \in RenderTexts(MaxChars) :
          LET p == ParagraphOf("CENTER", <<RunOf(section_icon \o instruction)>>)
          IN  /\ prev' = p
              /\ paragraph' = apply_smart_rtl_to_paragraph(p, <<instruction>>, TRUE)
              /\ last' = [op |-> "smart", direction |-> detect_text_direction(instruction),
                        preserve |-> TRUE]
    /\ site' = "section_header"
    /\ calls' = 1
    /\ UNCHANGED <<appVars, classifyVars, faultVars, grid, doc, threads>>

(* MultipleChoiceRenderer._render_question_header *)
RenderQuestionHeader ==
    /\ \E question \in RenderTexts(MaxChars) :
          LET p == ParagraphOf("LEFT", <<RunOf(number_run),
                                        RunOf(<<32, 32>> \o question)>>)
          IN  /\ prev' = p
              /\ paragraph' = apply_smart_rtl_to_paragraph(p, <<question>>, FALSE)
              /\ last' = [op |-> "smart", direction |-> detect_text_direction(question),
                        preserve |-> FALSE]
    /\ site' = "question_header"
    /\ calls' = 1
    /\ UNCHANGED <<appVars, classifyVars, faultVars, grid, doc, threads>>

(* MultipleChoiceRenderer._render_single_choice *)
RenderSingleChoice ==
    /\ \E choice \in RenderTexts(MaxChars) :
          LET p == ParagraphOf("CENTER", <<RunOf(label_run), RunOf(choice)>>)
          IN  /\ prev' = p
              /\ paragraph' = apply_smart_rtl_to_paragraph(p, <<choice>>, FALSE)
              /\ last' = [op |-> "smart", direction |-> detect_text_direction(choice),
                        preserve |-> FALSE]
    /\ site' = "choice_cell"
    /\ calls' = 1
    /\ UNCHANGED <<appVars, classifyVars, faultVars, grid, doc, threads>>

(* EssayRenderer.render, the question paragraph *)
RenderEssayQuestion ==
    /\ \E question \in RenderTexts(MaxChars) :
          LET p == ParagraphOf("RIGHT", <<RunOf(number_run),
                                         RunOf(<<32, 32>> \o question)>>)
          IN  /\ prev' = p
              /\ paragraph' = apply_smart_rtl_to_paragraph(p, <<question>>, FALSE)
              /\ last' = [op |-> "smart", direction |-> detect_text_direction(question),
                        preserve |-> FALSE]
    /\ site' = "essay_question"
    /\ calls' = 1
    /\ UNCHANGED <<appVars, classifyVars, faultVars, grid, doc, threads>>

(* SidebarRenderer._render_section, the title box and the content box *)
RenderSidebarSection ==
    /\ \E title \in RenderTexts(MaxChars) :
          LET p == ParagraphOf("CENTER", <<RunOf(title)>>)
          IN  /\ prev' = p
              /\ paragraph' = apply_rtl_to_paragraph(p, TRUE)
              /\ last' = [op |-> "rtl", direction |-> "none", preserve |-> TRUE]
    /\ site' = "sidebar_section"
    /\ calls' = 1
    /\ UNCHANGED <<appVars, classifyVars, faultVars, grid, doc, threads>>

NextRender ==
    \/ RenderTitle
    \/ RenderSectionHeader
    \/ RenderQuestionHeader
    \/ RenderSingleChoice
    \/ RenderEssayQuestion
    \/ RenderSidebarSection

SpecRender == InitRender /\ [][NextRender]_vars

----------------------------------------------------------------------------
(* State machine of one WorksheetGenerator.generate(data): doc.log is the  *)
(* sequence of renderer calls made so far, m and e the numbers of          *)
(* multiple-choice and essay questions of data, k the position of the      *)
(* running loop in its question list (from 0).                             *)

(* WorksheetData.__post_init__: a sidebar forces the sidebar layout *)
post_init_layout(sidebar, layout_type) ==
    IF sidebar THEN "with_sidebar" ELSE layout_type

render_question_noIncrement(d, kind) ==
    [d EXCEPT !.log = Append(@, [call |-> kind, index |-> d.k,
                                 number |-> d.question_number]),
              !.k = @ + 1]

(* body of the two loops of _render_questions: question.number =           *)
(* question_number; renderer.render(container, question, ..);              *)
(* question_number += 1                                                    *)
render_question(d, kind) ==
    [d EXCEPT !.log = Append(@, [call |-> kind, index |-> d.k,
                                 number |-> d.question_number]),
              !.question_number = @ + 1,
              !.k = @ + 1]

(* a renderer call that carries no question *)
Call(name) == [call |-> name, index |-> 0, number |-> 0]

InitGenerate ==
    /\ \E m \in 0..MaxQuestions, e \in 0..MaxQuestions, sidebar \in BOOLEAN,
          layout_type \in {"full_width", "with_sidebar"} :
          /\ m + e > 0
          /\ doc = [pc |-> "header", m |-> m, e |-> e, sidebar |-> sidebar,
                    layout_type |-> post_init_layout(sidebar, layout_type),
                    sidebar_container |-> FALSE, question_number |-> 0, k |-> 0,
                    log |-> <<>>]
    /\ paragraph = [runs |-> <<>>, alignment |-> "CENTER", space_before |-> "unset",
                    space_after |-> "unset", bidi |-> 0, bidiVisual |-> 0]
    /\ calls = 0
    /\ last = NoCall
    /\ prev = paragraph
    /\ ClassifyIdle
    /\ FaultIdle
    /\ AppIdle
    /\ GridIdle /\ SiteIdle /\ ThreadsIdle

(* self.header_renderer.render(doc, data.title, data.header_config) *)
GenerateHeader ==
    /\ doc.pc = "header"
    /\ doc' = [doc EXCEPT !.log = Append(@, Call("header")), !.pc = "layout"]
    /\ UNCHANGED <<appVars, paraVars, classifyVars, faultVars, grid, site, threads>>

(* self.layout_manager.create_layout(doc, data.layout_type), then the      *)
(* first line of _render_questions                                         *)
GenerateLayout ==
    /\ doc.pc = "layout"
    /\ doc' = [doc EXCEPT !.sidebar_container = (doc.layout_type = "with_sidebar"),
                          !.question_number = 1,
                          !.pc = "mc_section"]
    /\ UNCHANGED <<appVars, paraVars, classifyVars, faultVars, grid, site, threads>>

(* if data.multiple_choice_questions: section_renderer.render(..) *)
GenerateMcSection ==
    /\ doc.pc = "mc_section"
    /\ doc' = IF doc.m > 0
              THEN [doc EXCEPT !.log = Append(@, Call("mc_section")),
                               !.k = 0, !.pc = "mc_loop"]
              ELSE [doc EXCEPT !.pc = "essay_section"]
    /\ UNCHANGED <<appVars, paraVars, classifyVars, faultVars, grid, site, threads>>

(* for question in data.multiple_choice_questions *)
GenerateMcQuestion ==
    /\ doc.pc = "mc_loop"
    /\ doc' = IF doc.k < doc.m
              THEN render_question(doc, "mc_question")
              ELSE [doc EXCEPT !.pc = "essay_section"]
    /\ UNCHANGED <<appVars, paraVars, classifyVars, faultVars, grid, site, threads>>

(* if data.essay_questions: section_renderer.render(..) *)
GenerateEssaySection ==
    /\ doc.pc = "essay_section"
    /\ doc' = IF doc.e > 0
              THEN [doc EXCEPT !.log = Append(@, Call("essay_section")),
                               !.k = 0, !.pc = "essay_loop"]
              ELSE [doc EXCEPT !.pc = "sidebar"]
    /\ UNCHANGED <<appVars, paraVars, classifyVars, faultVars, grid, site, threads>>

(* for question in data.essay_questions *)
GenerateEssayQuestion ==
    /\ doc.pc = "essay_loop"
    /\ doc' = IF doc.k < doc.e
              THEN render_question(doc, "essay_question")
              ELSE [doc EXCEPT !.pc = "sidebar"]
    /\ UNCHANGED <<appVars, paraVars, classifyVars, faultVars, grid, site, threads>>

(* if sidebar_container and data.sidebar: sidebar_renderer.render(..) *)
GenerateSidebar ==
    /\ doc.pc = "sidebar"
    /\ doc' = IF doc.sidebar_container /\ doc.sidebar
              THEN [doc EXCEPT !.log = Append(@, Call("sidebar")), !.pc = "save"]
              ELSE [doc EXCEPT !.pc = "save"]
    /\ UNCHANGED <<appVars, paraVars, classifyVars, faultVars, grid, site, threads>>

(* doc.save(filename); return filename *)
GenerateSave ==
    /\ doc.pc = "save"
    /\ doc' = [doc EXCEPT !.pc = "done"]
    /\ UNCHANGED <<appVars, paraVars, classifyVars, faultVars, grid, site, threads>>

NextGenerate ==
    \/ GenerateHeader
    \/ GenerateLayout
    \/ GenerateMcSection
    \/ GenerateMcQuestion
    \/ GenerateEssaySection
    \/ GenerateEssayQuestion
    \/ GenerateSidebar
    \/ GenerateSave

SpecGenerate == InitGenerate /\ [][NextGenerate]_vars

----------------------------------------------------------------------------
(* State machine of two threads, each running one                          *)
(* apply_smart_rtl_to_paragraph call on its own paragraph, interleaved     *)
(* statement by statement.  threads.call[t] holds the locals of thread t's *)
(* call (paragraph p, text argument, preserve_alignment, direction, the    *)
(* position i of its loop over p.runs) and orig, the paragraph as the call *)
(* found it; threads.punct_map is the module-level ARABIC_PUNCT_MAP, the   *)
(* only object the two calls both reach.                                   *)

Threads == {1, 2}

ThreadRunTexts == {<<1575, 44>>, <<88>>, <<1575, 88>>}

RECURSIVE ThreadRunSeqs(_)
ThreadRunSeqs(n) ==
    IF n = 0 THEN {<<>>}
    ELSE LET shorter == ThreadRunSeqs(n - 1)
         IN  shorter \cup {Append(rs, RunOf(t)) : rs \in shorter, t \in ThreadRunTexts}

ThreadArgs == {<<>>, << <<1575>> >>, << <<1575, 88>> >>}

ThreadCalls(n) ==
    {[p |-> ParagraphOf("CENTER", rs), orig |-> ParagraphOf("CENTER", rs),
      arg |-> arg, preserve |-> preserve, direction |-> "none", i |-> 0,
      pc |-> "detect"] :
        rs \in ThreadRunSeqs(n), arg \in ThreadArgs, preserve \in BOOLEAN}

direction_of_otherThread(ts, t) == ts.call[(t % 2) + 1].direction

(* the local variable 'direction' of thread t's call *)
direction_of(ts, t) == ts.call[t].direction

(* direction = ArabicTextFormatter.detect_text_direction(text) *)
ThreadDetected(c) ==
    [c EXCEPT !.direction = detect_text_direction(EffectiveText(c.p, c.arg)),
              !.pc = "paragraph"]

(* the statements of the verdict's branch that come before its loop *)
ThreadParagraphDone(c, direction) ==
    IF direction \in {"rtl", "mixed"}
    THEN [c EXCEPT !.p = format_paragraph_rtl(c.p, c.preserve), !.i = 1, !.pc = "runs"]
    ELSE IF direction = "ltr"
    THEN [c EXCEPT !.p = [c.p EXCEPT !.space_after = "Pt0",
                                     !.space_before = "Pt0",
                                     !.alignment = IF ~c.preserve THEN "LEFT" ELSE @],
                   !.i = 1, !.pc = "runs"]
    ELSE [c EXCEPT !.p = NeutralBranch(c.p), !.pc = "done"]

(* one iteration of 'for run in paragraph.runs' *)
ThreadRunDone(c, direction) ==
    [c EXCEPT !.p.runs[c.i] =
                  IF direction = "rtl" THEN RtlBranchRun(c.p.runs[c.i])
                  ELSE IF direction = "mixed" THEN MixedBranchRun(c.p.runs[c.i])
                  ELSE LtrBranchRun(c.p.runs[c.i]),
              !.i = @ + 1]

(* the statements after the loop: the mixed branch appends w:bidiVisual *)
ThreadReturned(c, direction) ==
    IF direction = "mixed"
    THEN [c EXCEPT !.p.bidiVisual = @ + 1, !.pc = "done"]
    ELSE [c EXCEPT !.pc = "done"]

InitThreads ==
    /\ threads \in {[punct_map |-> ARABIC_PUNCT_MAP, call |-> <<c1, c2>>] :
                        c1 \in ThreadCalls(MaxRuns), c2 \in ThreadCalls(MaxRuns)}
    /\ paragraph = ParagraphOf("CENTER", <<>>)
    /\ calls = 0
    /\ last = NoCall
    /\ prev = paragraph
    /\ ClassifyIdle
    /\ FaultIdle
    /\ AppIdle
    /\ GridIdle /\ SiteIdle /\ DocIdle

ThreadDetect ==
    /\ \E t \in Threads :
          /\ threads.call[t].pc = "detect"
          /\ threads' = [threads EXCEPT !.call[t] = ThreadDetected(threads.call[t])]
    /\ UNCHANGED <<appVars, paraVars, classifyVars, faultVars, grid, site, doc>>

ThreadParagraph ==
    /\ \E t \in Threads :
          /\ threads.call[t].pc = "paragraph"
          /\ threads' = [threads EXCEPT !.call[t] =
                            ThreadParagraphDone(threads.call[t], direction_of(threads, t))]
    /\ UNCHANGED <<appVars, paraVars, classifyVars, faultVars, grid, site, doc>>

ThreadRun ==
    /\ \E t \in Threads :
          /\ threads.call[t].pc = "runs"
          /\ threads.call[t].i <= Len(threads.call[t].p.runs)
          /\ threads' = [threads EXCEPT !.call[t] =
                            ThreadRunDone(threads.call[t], direction_of(threads, t))]
    /\ UNCHANGED <<appVars, paraVars, classifyVars, faultVars, grid, site, doc>>

ThreadReturn ==
    /\ \E t \in Threads :
          /\ threads.call[t].pc = "runs"
          /\ threads.call[t].i > Len(threads.call[t].p.runs)
          /\ threads' = [threads EXCEPT !.call[t] =
                            ThreadReturned(threads.call[t], direction_of(threads, t))]
    /\ UNCHANGED <<appVars, paraVars, classifyVars, faultVars, grid, site, doc>>

NextThreads == ThreadDetect \/ ThreadParagraph \/ ThreadRun \/ ThreadReturn

SpecThreads == InitThreads /\ [][NextThreads]_vars

(***************************************************************************)
(* Application-level operations (src/app.py).  While one of them runs the  *)
(* formatter, classifier and renderer state stays as constructed.          *)
(***************************************************************************)
libVars == <<paragraph, calls, last, prev, ctext, cverdict, cvalue, cresult,
             fault, raised, grid, site, doc, threads>>
LibIdle ==
    /\ paragraph = ParagraphOf("CENTER", <<>>)
    /\ calls = 0
    /\ last = NoCall
    /\ prev = paragraph
    /\ ClassifyIdle
    /\ FaultIdle
    /\ RenderIdle

(***************************************************************************)
(* Per-type question limits.  A question is [type, id]; the questions      *)
(* document of the database holds one list per type.  A Python dict is a   *)
(* function from its keys, so 'k in d' is k \in DOMAIN d.                   *)
(***************************************************************************)
MaxPerType == 2
MaxCount == 2

QuestionTypes == {"multiple_choice", "true_false", "short_answer", "complete"}
Counts == (-1) .. MaxCount

QuestionsOfType(t, n) == [i \in 1 .. n |-> [type |-> t, id |-> i]]

Slice(list, n) == SubSeq(list, 1, Min(n, Len(list)))

OfType(list, t) == SelectSeq(list, LAMBDA q : q.type = t)

NotOfTypes(list, ts) == SelectSeq(list, LAMBDA q : q.type \notin ts)

create_worksheet_from_ai_db(db, output) ==
    LET all_multiple_choice == db.multiple_choice \o db.true_false
        all_essay == db.short_answer \o db.complete
    IN  IF output = "question_bank"
        THEN [title |-> "filename", questions |-> all_multiple_choice \o all_essay]
        ELSE [title |-> "filename",
              multiple_choice |-> [questions |-> all_multiple_choice],
              essay |-> [questions |-> all_essay]]

Limited(list, count) ==
    IF count # 0
    THEN IF count = -1 THEN list ELSE Slice(list, count)
    ELSE <<>>

limit_section(questions, first, firstCount, second, secondCount) ==
    Limited(OfType(questions, first), firstCount)
        \o Limited(OfType(questions, second), secondCount)
        \o NotOfTypes(questions, {first, second})

limit_questions_by_type(data, count) ==
    LET afterMc ==
            IF "multiple_choice" \in DOMAIN data
               /\ "questions" \in DOMAIN data.multiple_choice
            THEN [data EXCEPT !.multiple_choice.questions =
                     limit_section(@, "multiple_choice", count.multiple_choice,
                                   "true_false", count.true_false)]
            ELSE data
    IN  IF "essay" \in DOMAIN afterMc /\ "questions" \in DOMAIN afterMc.essay
        THEN [afterMc EXCEPT !.essay.questions =
                 limit_section(@, "short_answer", count.short_answer,
                               "complete", count.complete)]
        ELSE afterMc

InitLimit ==
    /\ LibIdle
    /\ JobIdle /\ PdfIdle /\ MindmapIdle /\ AnswersIdle /\ ServiceIdle
    /\ \E len \in [QuestionTypes -> 0 .. MaxPerType],
          count \in [QuestionTypes -> Counts],
          output \in {"worksheet", "question_bank"} :
            limit = [pc |-> "called",
                     db |-> [t \in QuestionTypes |-> QuestionsOfType(t, len[t])],
                     output |-> output,
                     count |-> count]

CreateFromDb ==
    /\ limit.pc = "called"
    /\ limit' = [pc |-> "created", db |-> limit.db, output |-> limit.output,
                 count |-> limit.count,
                 data |-> create_worksheet_from_ai_db(limit.db, limit.output)]
    /\ UNCHANGED <<libVars, job, pdf, mindmap, answers, service>>

LimitByType ==
    /\ limit.pc = "created"
    /\ limit' = [limit EXCEPT !.pc = "limited",
                              !.data = limit_questions_by_type(@, limit.count)]
    /\ UNCHANGED <<libVars, job, pdf, mindmap, answers, service>>

NextLimit == CreateFromDb \/ LimitByType

SpecLimit == InitLimit /\ [][NextLimit]_vars

(***************************************************************************)
(* create_all_documents (src/app.py): one run of the create-all endpoint.  *)
(* stored is the set of artifacts the storage folder of the document holds *)
(* when the request arrives, listing whether the storage service can be    *)
(* obtained and lists the folder; ops collects the kinds of generation and *)
(* storage-changing operations the run has performed.                      *)
(***************************************************************************)
Artifacts ==
    <<"mindmap", "worksheet_with_solutions", "worksheet_no_solutions",
      "question_bank_with_solutions", "question_bank_no_solutions">>

ArtifactNames == {Artifacts[i] : i \in 1 .. Len(Artifacts)}

MindmapOutcomes ==
    {"raises", "no_data", "image_failed", "copy_failed", "created",
     "created_delete_failed"}

DocumentOutcomes == {"raises", "generation_failed", "upload_failed", "created"}

(* the operations a step has performed when it ends with the outcome *)
OpsOf(outcome) ==
    CASE outcome \in {"raises", "no_data"} -> {}
      [] outcome \in {"image_failed", "generation_failed"} -> {"generate"}
      [] outcome = "upload_failed" -> {"generate", "upload"}
      [] outcome = "copy_failed" -> {"generate", "upload", "copy"}
      [] outcome \in {"created", "created_delete_failed"} ->
            {"generate", "upload"}

MindmapOpsOf(outcome) ==
    IF outcome \in {"created", "created_delete_failed"}
    THEN {"generate", "upload", "copy", "delete"}
    ELSE OpsOf(outcome)

(* results after one step: created_files[name] on success, otherwise
   errors[name] and status 'partial' *)
step_result(results, name, outcome) ==
    IF outcome \in {"created", "created_delete_failed"}
    THEN [results EXCEPT !.created_files = @ \cup {name}]
    ELSE [results EXCEPT !.errors = @ \cup {name}, !.status = "partial"]

final_status_keepStatus(results) == results.status

(* "Determine final status" *)
final_status(results) ==
    IF Cardinality(results.created_files) = 0 THEN "error"
    ELSE IF Cardinality(results.errors) > 0 THEN "partial"
    ELSE results.status

InitJob ==
    /\ LibIdle
    /\ LimitIdle /\ PdfIdle /\ MindmapIdle /\ AnswersIdle /\ ServiceIdle
    /\ \E stored \in SUBSET ArtifactNames, override \in BOOLEAN,
          valid_uuid \in BOOLEAN, listing \in {"ok", "raises", "no_service"} :
            job = [pc |-> "called", stored |-> stored, override |-> override,
                   valid_uuid |-> valid_uuid, listing |-> listing, ops |-> {}]

(* UUID validation, the existing-file check and the early return *)
CheckExisting ==
    /\ job.pc = "called"
    /\ LET existing_files ==
               IF job.listing = "ok" THEN job.stored ELSE {}
       IN  job' =
             IF ~job.valid_uuid \/ job.listing = "no_service"
             THEN [job EXCEPT !.pc = "returned"] @@
                  [response |-> [success |-> FALSE, exists |-> FALSE,
                                 existing_files |-> {}]]
             ELSE IF existing_files # {} /\ ~job.override
             THEN [job EXCEPT !.pc = "returned"] @@
                  [response |-> [success |-> TRUE, exists |-> TRUE,
                                 existing_files |-> existing_files]]
             ELSE [job EXCEPT !.pc = "generating"] @@
                  [step |-> 1,
                   results |-> [created_files |-> {}, errors |-> {},
                                status |-> "success"]]
    /\ UNCHANGED <<libVars, limit, pdf, mindmap, answers, service>>

(* step 1: mindmap data, image, copy into the folder, delete the original *)
GenerateMindmap ==
    /\ job.pc = "generating"
    /\ job.step = 1
    /\ \E outcome \in MindmapOutcomes :
          job' = [job EXCEPT !.step = 2,
                             !.ops = @ \cup MindmapOpsOf(outcome),
                             !.results = step_result(@, Artifacts[1], outcome)]
    /\ UNCHANGED <<libVars, limit, pdf, mindmap, answers, service>>

(* steps 2 and 3: worksheet with and without solutions *)
GenerateWorksheet ==
    /\ job.pc = "generating"
    /\ job.step \in {2, 3}
    /\ \E outcome \in DocumentOutcomes :
          job' = [job EXCEPT !.step = @ + 1,
                             !.ops = @ \cup OpsOf(outcome),
                             !.results = step_result(@, Artifacts[job.step], outcome)]
    /\ UNCHANGED <<libVars, limit, pdf, mindmap, answers, service>>

(* steps 4 and 5: question bank with and without solutions *)
GenerateQuestionBank ==
    /\ job.pc = "generating"
    /\ job.step \in {4, 5}
    /\ \E outcome \in DocumentOutcomes :
          job' = [job EXCEPT !.step = @ + 1,
                             !.ops = @ \cup OpsOf(outcome),
                             !.results = step_result(@, Artifacts[job.step], outcome)]
    /\ UNCHANGED <<libVars, limit, pdf, mindmap, answers, service>>

(* final status, summary and response *)
FinishJob ==
    /\ job.pc = "generating"
    /\ job.step = 6
    /\ LET status == final_status(job.results)
       IN  job' = [job EXCEPT !.pc = "returned", !.results.status = status] @@
                  [summary |-> [total_requested |-> 5,
                                successfully_created |->
                                    Cardinality(job.results.created_files),
                                failed |-> Cardinality(job.results.errors)],
                   response |-> [success |-> status \in {"success", "partial"},
                                 exists |-> FALSE, existing_files |-> {}]]
    /\ UNCHANGED <<libVars, limit, pdf, mindmap, answers, service>>

NextJob ==
    \/ CheckExisting
    \/ GenerateMindmap
    \/ GenerateWorksheet
    \/ GenerateQuestionBank
    \/ FinishJob

SpecJob == InitJob /\ [][NextJob]_vars

(***************************************************************************)
(* PDFConverter.convert_docx_to_pdf (src/app.py): the conversion methods   *)
(* are tried in list order.  outcome[m] is what method m does when it is   *)
(* called (returns true, returns false or raises), watermark what          *)
(* _add_watermark_to_pdf does; tried is the list of methods called so far. *)
(***************************************************************************)
methods ==
    <<"_convert_with_unoconv", "_convert_with_libreoffice",
      "_convert_with_python_docx2pdf", "_convert_with_comtypes",
      "_fallback_to_copy">>

MethodOutcomes(m) ==
    IF m = "_fallback_to_copy" THEN {"false"} ELSE {"true", "false", "raises"}

convert_result_needsWatermark(conversion_successful, watermark) ==
    conversion_successful /\ watermark = "ok"

(* the value returned after the loop *)
convert_result(conversion_successful, watermark) == conversion_successful

InitPdf ==
    /\ LibIdle
    /\ LimitIdle /\ JobIdle /\ MindmapIdle /\ AnswersIdle /\ ServiceIdle
    /\ \E outcome \in [1 .. Len(methods) -> {"true", "false", "raises"}],
          watermark \in {"ok", "raises"} :
            /\ \A i \in 1 .. Len(methods) : outcome[i] \in MethodOutcomes(methods[i])
            /\ pdf = [pc |-> "loop", outcome |-> outcome, watermark |-> watermark,
                      tried |-> <<>>, conversion_successful |-> FALSE,
                      watermarked |-> FALSE]

(* one iteration of 'for method in methods' *)
TryMethod ==
    /\ pdf.pc = "loop"
    /\ Len(pdf.tried) < Len(methods)
    /\ LET i == Len(pdf.tried) + 1
       IN  pdf' = [pdf EXCEPT
                     !.tried = Append(@, methods[i]),
                     !.conversion_successful = (pdf.outcome[i] = "true"),
                     !.pc = IF pdf.outcome[i] = "true" \/ i = Len(methods)
                            THEN "after_loop" ELSE "loop"]
    /\ UNCHANGED <<libVars, limit, job, mindmap, answers, service>>

(* the watermark attempt and the return *)
ReturnConversion ==
    /\ pdf.pc = "after_loop"
    /\ pdf' = [pdf EXCEPT !.pc = "returned",
                          !.watermarked = pdf.conversion_successful
                                              /\ pdf.watermark = "ok"] @@
              [result |-> convert_result(pdf.conversion_successful, pdf.watermark),
               raised |-> FALSE]
    /\ UNCHANGED <<libVars, limit, job, mindmap, answers, service>>

NextPdf == TryMethod \/ ReturnConversion

SpecPdf == InitPdf /\ [][NextPdf]_vars

(***************************************************************************)
(* MindMapImageGenerator.generate_mindmap_image_and_upload                 *)
(* (src/mindmap_service.py).  render[k] is what the k-th browser rendering *)
(* does if it is made (returns the image, times out or raises), fallback   *)
(* what _generate_image_fallback does, upload what saving and uploading    *)
(* the image does; log is the list of rendering results so far.  Every     *)
(* rendering ends: each browser call carries a timeout and the result is   *)
(* awaited for at most 120 seconds.                                        *)
(***************************************************************************)
PlaywrightAttempts == 3

RenderOutcomes == {"ok", "timeout", "raises"}

needs_fallback_always(playwright_success) == TRUE

(* 'if not playwright_success' *)
needs_fallback(playwright_success) == ~playwright_success

(* the dictionary returned for an upload result *)
mindmap_status(upload) == IF upload = "success" THEN "success" ELSE "error"

InitMindmap ==
    /\ LibIdle
    /\ LimitIdle /\ JobIdle /\ PdfIdle /\ AnswersIdle /\ ServiceIdle
    /\ \E render \in [1 .. PlaywrightAttempts -> RenderOutcomes],
          fallback \in {"ok", "raises"},
          upload \in {"success", "error", "raises"} :
            mindmap = [pc |-> "loop", render |-> render, fallback |-> fallback,
                       upload |-> upload, log |-> <<>>, sleeps |-> 0,
                       playwright_success |-> FALSE, fallback_used |-> FALSE]

(* one iteration of 'for attempt in range(3)' *)
PlaywrightAttempt ==
    /\ mindmap.pc = "loop"
    /\ Len(mindmap.log) < PlaywrightAttempts
    /\ LET attempt == Len(mindmap.log)
           outcome == mindmap.render[attempt + 1]
       IN  mindmap' =
             [mindmap EXCEPT
                !.log = Append(@, outcome),
                !.playwright_success = (outcome = "ok"),
                !.sleeps = IF outcome # "ok" /\ attempt < 2 THEN @ + 1 ELSE @,
                !.pc = IF outcome = "ok" \/ attempt + 1 = PlaywrightAttempts
                       THEN "after_loop" ELSE "loop"]
    /\ UNCHANGED <<libVars, limit, job, pdf, answers, service>>

(* the fallback image when no rendering succeeded, the temporary file, the
   upload and the returned dictionary; an exception anywhere returns the
   error dictionary of the outer handler *)
UploadMindmap ==
    /\ mindmap.pc = "after_loop"
    /\ LET use == needs_fallback(mindmap.playwright_success)
           fails == (use /\ mindmap.fallback = "raises")
                        \/ mindmap.upload = "raises"
           uploaded == ~(use /\ mindmap.fallback = "raises")
                          /\ mindmap.upload = "success"
       IN  mindmap' = [mindmap EXCEPT !.pc = "returned",
                                      !.fallback_used = use] @@
                      [uploaded |-> uploaded,
                       status |-> IF fails THEN "error"
                                  ELSE mindmap_status(mindmap.upload),
                       raised |-> FALSE]
    /\ UNCHANGED <<libVars, limit, job, pdf, answers, service>>

NextMindmap == PlaywrightAttempt \/ UploadMindmap

SpecMindmap == InitMindmap /\ [][NextMindmap]_vars /\ WF_vars(NextMindmap)

(***************************************************************************)
(* Answer removal (src/app.py, generate_worksheet).  A Python value is     *)
(* tagged with its type: None, an int, a dict (a function from its keys)   *)
(* or a list (a sequence).  heap maps object references to the values they *)
(* hold, so that a copy is a new reference and an in-place change of one   *)
(* object is seen through every name bound to it.                          *)
(***************************************************************************)
MaxKeys == 2
MaxItems == 1

PyNone == [kind |-> "None"]
PyInt(n) == [kind |-> "int", v |-> n]
PyDict(items) == [kind |-> "dict", items |-> items]
PyList(items) == [kind |-> "list", items |-> items]
Unallocated == [kind |-> "unallocated"]

AnswerFields == {"answer_key", "answer"}
DataKeys == AnswerFields \cup {"question"}

Scalars == {PyNone, PyInt(1)}

Containers(values) ==
    {PyDict(f) : f \in UNION {[K -> values] :
                     K \in {S \in SUBSET DataKeys : Cardinality(S) <= MaxKeys}}}
        \cup {PyList(s) : s \in UNION {[1 .. n -> values] : n \in 0 .. MaxItems}}

Nested(values) == values \cup Containers(values)

(* data['multiple_choice']['questions'] = [q] *)
Section(q) ==
    PyDict([multiple_choice |-> PyDict([questions |-> PyList(<<q>>)])])

InputData(values) == values \cup {Section(q) : q \in values}

RECURSIVE remove_answers(_)
remove_answers(d) ==
    IF d.kind = "dict"
    THEN PyDict([k \in DOMAIN d.items |->
                    IF k \in AnswerFields THEN PyNone
                    ELSE remove_answers(d.items[k])])
    ELSE IF d.kind = "list"
    THEN PyList([i \in DOMAIN d.items |-> remove_answers(d.items[i])])
    ELSE d

deepcopy_alias(ref, fresh) == ref

(* copy.deepcopy: the reference of the copy, a newly allocated object *)
deepcopy(ref, fresh) == fresh

InitAnswers ==
    /\ LibIdle
    /\ LimitIdle /\ JobIdle /\ PdfIdle /\ MindmapIdle /\ ServiceIdle
    /\ \E d \in InputData(Nested(Nested(Scalars))), other \in {PyNone, PyInt(2)} :
          answers = [pc |-> "limited",
                     heap |-> <<d, Unallocated, Unallocated>>,
                     data |-> 1,
                     original |-> d,
                     other |-> other]

(* data_with_solutions = copy.deepcopy(data)
   data_no_solutions = copy.deepcopy(data) *)
CopyData ==
    /\ answers.pc = "limited"
    /\ LET with == deepcopy(answers.data, 2)
           no == deepcopy(answers.data, 3)
           heap1 == [answers.heap EXCEPT ![with] = answers.heap[answers.data]]
           heap2 == [heap1 EXCEPT ![no] = heap1[answers.data]]
       IN  answers' = [answers EXCEPT !.pc = "copied", !.heap = heap2] @@
                      [data_with_solutions |-> with, data_no_solutions |-> no]
    /\ UNCHANGED <<libVars, limit, job, pdf, mindmap, service>>

(* _remove_answers(data_no_solutions) *)
RemoveAnswers ==
    /\ answers.pc = "copied"
    /\ answers' = [answers EXCEPT
                     !.pc = "removed",
                     !.heap[answers.data_no_solutions] = remove_answers(@)]
    /\ UNCHANGED <<libVars, limit, job, pdf, mindmap, service>>

NextAnswers == CopyData \/ RemoveAnswers

SpecAnswers == InitAnswers /\ [][NextAnswers]_vars

(***************************************************************************)
(* WorksheetService.validate_data and create_worksheet on the same input   *)
(* (src/worksheet_generator.py).  The input dict is reduced to what the    *)
(* two methods read: whether the 'multiple_choice' and 'essay' sections    *)
(* with their 'questions' are present (<<>> absent, <<list>> present) and, *)
(* per question, whether 'question' is present, the number of choices and  *)
(* the answer key (Absent, PyNone or PyInt(k)).                            *)
(* The input carries no flat 'questions' list (the question-bank form).    *)
(***************************************************************************)
MaxSectionLen == 1

Absent == [kind |-> "absent"]

McQuestions ==
    [question : BOOLEAN, choices : {<<>>, <<3>>, <<4>>},
     answer_key : {Absent, PyNone, PyInt(0), PyInt(4)}]

EssayQuestions == [question : BOOLEAN]

SectionsOf(questions) ==
    {<<>>} \cup {<<list>> : list \in UNION {[1 .. n -> questions] :
                                              n \in 0 .. MaxSectionLen}}

(* the checks of one multiple-choice question: "error", "ok", or "raises"
   when the comparison 0 <= q['answer_key'] meets None *)
validate_mc(q) ==
    IF q.answer_key = PyNone THEN "raises"
    ELSE IF \/ ~q.question
            \/ q.choices # <<4>>
            \/ (q.answer_key # Absent /\ ~(0 <= q.answer_key.v /\ q.answer_key.v < 4))
    THEN "error"
    ELSE "ok"

validate_data(data) ==
    LET has_mc == data.multiple_choice # <<>>
        has_essay == data.essay # <<>>
        mc == IF has_mc THEN data.multiple_choice[1] ELSE <<>>
        essay == IF has_essay THEN data.essay[1] ELSE <<>>
    IN  IF \E i \in DOMAIN mc : validate_mc(mc[i]) = "raises" THEN FALSE
        ELSE /\ has_mc \/ has_essay
             /\ \A i \in DOMAIN mc : validate_mc(mc[i]) = "ok"
             /\ \A i \in DOMAIN essay : essay[i].question

(* MultipleChoiceQuestion(question=q['question'], choices=q['choices'],
   answer_key=q.get('answer_key')) with its __post_init__ *)
convert_mc(q) ==
    IF ~q.question \/ q.choices = <<>> THEN "KeyError"
    ELSE IF q.answer_key \notin {Absent, PyNone}
            /\ ~(0 <= q.answer_key.v /\ q.answer_key.v < 4)
    THEN "ValueError"
    ELSE "ok"

(* the first exception of a list of conversions, "ok" if there is none *)
RECURSIVE FirstFailure(_)
FirstFailure(results) ==
    IF results = <<>> THEN "ok"
    ELSE IF Head(results) # "ok" THEN Head(results)
    ELSE FirstFailure(Tail(results))

(* _convert_input_data followed by WorksheetData.__post_init__ *)
convert_input_data(data) ==
    LET mc == IF data.multiple_choice # <<>> THEN data.multiple_choice[1] ELSE <<>>
        essay == IF data.essay # <<>> THEN data.essay[1] ELSE <<>>
        converted ==
            [i \in DOMAIN mc |-> convert_mc(mc[i])]
                \o [i \in DOMAIN essay |->
                       IF essay[i].question THEN "ok" ELSE "KeyError"]
    IN  IF FirstFailure(converted) # "ok" THEN FirstFailure(converted)
        ELSE IF mc = <<>> /\ essay = <<>> THEN "ValueError"
        ELSE "ok"

(* the status dictionary of create_worksheet *)
create_worksheet(data) ==
    CASE convert_input_data(data) = "ValueError" -> "Data validation error"
      [] convert_input_data(data) = "KeyError" -> "Generation error"
      [] OTHER -> "success"

InitService ==
    /\ LibIdle
    /\ LimitIdle /\ JobIdle /\ PdfIdle /\ MindmapIdle /\ AnswersIdle
    /\ \E mc \in SectionsOf(McQuestions), essay \in SectionsOf(EssayQuestions) :
          service = [pc |-> "start",
                     data |-> [multiple_choice |-> mc, essay |-> essay]]

ValidateData ==
    /\ service.pc = "start"
    /\ service' = [pc |-> "validated", data |-> service.data,
                   valid |-> validate_data(service.data)]
    /\ UNCHANGED <<libVars, limit, job, pdf, mindmap, answers>>

CreateWorksheet ==
    /\ service.pc = "validated"
    /\ service' = [pc |-> "created", data |-> service.data,
                   valid |-> service.valid,
                   result |-> create_worksheet(service.data)]
    /\ UNCHANGED <<libVars, limit, job, pdf, mindmap, answers>>

NextService == ValidateData \/ CreateWorksheet

SpecService == InitService /\ [][NextService]_vars

----------------------------------------------------------------------------
(* Vocabulary of the properties *)

CountIn(text, chars) == Cardinality({i \in 1..Len(text) : text[i] \in chars})

AsciiPunct == {44, 63, 59}

AsciiLettersDigits == (65..90) \cup (97..122) \cup (48..57)

ArabicBlock == 1536..1791

(* the classes the classifier counts *)
ArabicClassChars == (1424..2303) \cup (64285..65276)

LatinClassChars == (65..122) \cup (48..57)

Openers(text) == CountIn(text, {LRI, RLI})

Pops(text) == CountIn(text, {PDI})

(* every isolate opener has its own later PDI: the markers nest like brackets *)
WellPaired(text) ==
    /\ Openers(text) = Pops(text)
    /\ \A k \in 0..Len(text) :
          Pops(SubSeq(text, 1, k)) <= Openers(SubSeq(text, 1, k))

(* ',' -> ARABIC COMMA, '?' -> ARABIC QUESTION MARK, ';' -> ARABIC SEMICOLON *)
ArabicPunctOf(c) ==
    CASE c = 44 -> 1548
      [] c = 63 -> 1567
      [] c = 59 -> 1563
      [] OTHER -> c

WithArabicPunct(text) == [j \in 1..Len(text) |-> ArabicPunctOf(text[j])]

RunIndex == 1..Len(prev.runs)

SmartUnder(verdicts) == last.op = "smart" /\ last.direction \in verdicts

ArabicOnly(text) == contains_arabic(text) /\ ~contains_strong_latin(text)

----------------------------------------------------------------------------
(* Properties *)

(* C1: with a and l the numbers of characters of the text the classifier  *)
(* counts as Arabic-class and as Latin-class and total = a + l, the        *)
(* verdict is neutral iff total = 0; otherwise rtl iff a/total > 0.6, ltr  *)
(* iff a/total < 0.2, mixed in every other case.  1 Arabic + 4 Latin and   *)
(* 3 Arabic + 2 Latin are mixed, a non-empty all-Arabic text is rtl, a     *)
(* non-empty text of ASCII letters/digits is ltr.                          *)
C1_VerdictByRatio ==
    LET a == CountIn(ctext, ArabicClassChars)
        l == CountIn(ctext, LatinClassChars)
        total == a + l
    IN  /\ (cverdict = "neutral") <=> (total = 0)
        /\ total > 0 =>
              /\ (cverdict = "rtl") <=> (10 * a > 6 * total)
              /\ (cverdict = "ltr") <=> (10 * a < 2 * total)
              /\ (cverdict = "mixed") <=> (2 * total <= 10 * a /\ 10 * a <= 6 * total)
        /\ (a = 1 /\ l = 4) => cverdict = "mixed"
        /\ (a = 3 /\ l = 2) => cverdict = "mixed"
        /\ (Len(ctext) > 0 /\ \A i \in 1..Len(ctext) : ctext[i] \in ArabicBlock)
              => cverdict = "rtl"
        /\ (Len(ctext) > 0 /\ \A i \in 1..Len(ctext) : ctext[i] \in AsciiLettersDigits)
              => cverdict = "ltr"

C1_Witness ==
    /\ CountIn(ctext, {1575}) = 1
    /\ CountIn(ctext, {88, 53}) = 4
    /\ Len(ctext) = 5
    /\ cverdict = "mixed"

(* C2: in every reachable state every run's isolate openers (LRI, RLI)     *)
(* are matched one to one by later PDIs in the same run's text.            *)
C2_MarkersPaired ==
    \A i \in 1..Len(paragraph.runs) : WellPaired(paragraph.runs[i].text)

C2_Witness ==
    /\ calls >= 2
    /\ last.op = "smart"
    /\ \E i \in 1..Len(paragraph.runs) :
          /\ Openers(paragraph.runs[i].text) >= 2
          /\ RLI \in {paragraph.runs[i].text[j] : j \in 1..Len(paragraph.runs[i].text)}

(* C3: a second application does not wrap a run again: no run's text ever  *)
(* holds more than one isolate pair.                                       *)
C3_NoDoubleWrap ==
    \A i \in 1..Len(paragraph.runs) : Openers(paragraph.runs[i].text) <= 1

(* C4: under an rtl or mixed verdict a run with strong Latin content keeps *)
(* every ',', '?' and ';'.                                                 *)
C4_LatinRunKeepsPunct ==
    SmartUnder({"rtl", "mixed"}) =>
        \A i \in RunIndex :
            contains_strong_latin(prev.runs[i].text) =>
                \A c \in AsciiPunct :
                    CountIn(paragraph.runs[i].text, {c}) = CountIn(prev.runs[i].text, {c})

(* C5: under an rtl or mixed verdict a run with Arabic-class characters    *)
(* and no strong Latin content has every ',', '?' and ';' replaced by its  *)
(* Arabic mark and no other character changed (isolate markers may be put  *)
(* around the text of a run that holds a math object).                     *)
C5_ArabicRunPunct ==
    SmartUnder({"rtl", "mixed"}) =>
        \A i \in RunIndex :
            ArabicOnly(prev.runs[i].text) =>
                LET E == WithArabicPunct(prev.runs[i].text)
                    new == paragraph.runs[i].text
                IN  IF prev.runs[i].omml
                    THEN new \in {E, <<LRI>> \o E \o <<PDI>>, <<LRI>> \o E \o <<PDI, RLM>>}
                    ELSE new = E

C5_Witness ==
    /\ SmartUnder({"rtl", "mixed"})
    /\ \E i \in RunIndex :
          /\ prev.runs[i].text = <<1567, 44, 63>>
          /\ paragraph.runs[i].text = <<1567, 1548, 1567>>

(* C6: under an rtl or mixed verdict a run is wrapped as LRI + text + PDI  *)
(* iff it holds strong Latin content or a math object, and with a math     *)
(* object the text ends with RLM right after the closing PDI.              *)
C6_IsolateIffLatinOrMath ==
    SmartUnder({"rtl", "mixed"}) =>
        \A i \in RunIndex :
            LET old == prev.runs[i]
                new == paragraph.runs[i].text
                n == Len(old.text)
                wrapped == /\ Len(new) >= n + 2
                           /\ new[1] = LRI
                           /\ new[n + 2] = PDI
            IN  /\ wrapped <=> (contains_strong_latin(old.text) \/ old.omml)
                /\ ~wrapped => Len(new) = n
                /\ old.omml => (Len(new) = n + 3 /\ new[n + 3] = RLM)
                /\ (wrapped /\ ~old.omml) => Len(new) = n + 2

(* C7: under an rtl or mixed verdict a run gets the run-level RTL property *)
(* iff its text after punctuation substitution holds Arabic-class          *)
(* characters and no strong Latin content.                                 *)
C7_RunRtlIff ==
    SmartUnder({"rtl", "mixed"}) =>
        \A i \in RunIndex :
            LET old == prev.runs[i]
                S == IF ArabicOnly(old.text) THEN WithArabicPunct(old.text) ELSE old.text
            IN  IF contains_arabic(S) /\ ~contains_strong_latin(S)
                THEN paragraph.runs[i].rtl = Append(old.rtl, "1")
                ELSE paragraph.runs[i].rtl = old.rtl

C7_Witness ==
    /\ SmartUnder({"mixed"})
    /\ Len(prev.runs) = 2
    /\ \E i \in RunIndex :
          /\ ArabicOnly(prev.runs[i].text)
          /\ paragraph.runs[i].rtl = <<"1">>
    /\ \E i \in RunIndex :
          /\ contains_arabic(prev.runs[i].text)
          /\ contains_strong_latin(prev.runs[i].text)
          /\ paragraph.runs[i].rtl = <<>>

(* C8: under an ltr verdict a run is changed iff it holds Arabic-class     *)
(* characters and no strong Latin content; it then becomes                 *)
(* RLI + text + PDI with run-level RTL.  Every other run is unchanged, no  *)
(* punctuation is substituted, no LRI is added, and a paragraph of pure    *)
(* Latin letters/digits gains no isolate marker.                           *)
C8_LtrBranch ==
    SmartUnder({"ltr"}) =>
        /\ Len(paragraph.runs) = Len(prev.runs)
        /\ \A i \in RunIndex :
              LET old == prev.runs[i]
                  new == paragraph.runs[i]
              IN  /\ IF ArabicOnly(old.text)
                     THEN /\ new.text = <<RLI>> \o old.text \o <<PDI>>
                          /\ new.rtl = Append(old.rtl, "1")
                     ELSE new = old
                  /\ CountIn(new.text, {LRI}) = CountIn(old.text, {LRI})
                  /\ \A c \in AsciiPunct : CountIn(new.text, {c}) = CountIn(old.text, {c})
        /\ (\A i \in RunIndex : \A j \in 1..Len(prev.runs[i].text) :
                prev.runs[i].text[j] \in AsciiLettersDigits)
              => \A i \in RunIndex : CountIn(paragraph.runs[i].text, {LRI, RLI, PDI}) = 0
        /\ paragraph.bidi = prev.bidi
        /\ paragraph.bidiVisual = prev.bidiVisual

C8_Witness ==
    /\ SmartUnder({"ltr"})
    /\ Len(prev.runs) = 2
    /\ \E i \in RunIndex :
          /\ prev.runs[i].text = <<1575>>
          /\ paragraph.runs[i].text = <<RLI, 1575, PDI>>
          /\ paragraph.runs[i].rtl = <<"1">>
    /\ \E i \in RunIndex :
          /\ prev.runs[i].text = <<88, 63>>
          /\ paragraph.runs[i] = prev.runs[i]

(* C9: under a neutral verdict only the paragraph's before/after spacing   *)
(* is zeroed: runs, direction properties and alignment stay as they were.  *)
C9_NeutralOnlySpacing ==
    SmartUnder({"neutral"}) =>
        /\ paragraph.runs = prev.runs
        /\ paragraph.bidi = prev.bidi
        /\ paragraph.bidiVisual = prev.bidiVisual
        /\ paragraph.alignment = prev.alignment
        /\ paragraph.space_before = "Pt0"
        /\ paragraph.space_after = "Pt0"

C9_Witness ==
    /\ SmartUnder({"neutral"})
    /\ ~last.preserve
    /\ prev.space_before = "unset"
    /\ paragraph.space_before = "Pt0"
    /\ paragraph.alignment = "CENTER"
    /\ \E i \in RunIndex : contains_arabic(prev.runs[i].text) /\ prev.runs[i].omml
    /\ \E i \in RunIndex : contains_strong_latin(prev.runs[i].text)

(* C10: with preserve_alignment=True neither apply_smart_rtl_to_paragraph  *)
(* nor format_paragraph_rtl changes the alignment, whatever the verdict;   *)
(* with preserve_alignment=False the rtl, mixed and ltr verdicts force     *)
(* LEFT.                                                                   *)
C10_Alignment ==
    /\ (last.op \in {"smart", "rtl"} /\ last.preserve)
          => paragraph.alignment = prev.alignment
    /\ (SmartUnder({"rtl", "mixed", "ltr"}) /\ ~last.preserve)
          => paragraph.alignment = "LEFT"

C10_Witness ==
    /\ SmartUnder({"rtl"})
    /\ last.preserve
    /\ calls = 1
    /\ paragraph.alignment = "CENTER"
    /\ paragraph.bidi = 1

(* the run the branch of the latest verdict makes of run r when nothing    *)
(* rejects                                                                 *)
BranchRun(r) ==
    CASE last.direction = "rtl" -> RtlBranchRun(r)
      [] last.direction = "mixed" -> MixedBranchRun(r)
      [] last.direction = "ltr" -> LtrBranchRun(r)
      [] OTHER -> r

(* C11: whatever direction property the library rejects, at run level or   *)
(* at paragraph level, the smart formatter does not raise; a run whose     *)
(* run-level property is rejected is processed like the others except that *)
(* it gets no w:rtl, and every other run is processed as if nothing had    *)
(* been rejected.                                                          *)
C11_NeverAborts ==
    last.op = "smart" =>
        /\ ~raised
        /\ \A i \in RunIndex :
              /\ i \notin fault.runs => paragraph.runs[i] = BranchRun(prev.runs[i])
              /\ i \in fault.runs =>
                    paragraph.runs[i] =
                        [BranchRun(prev.runs[i]) EXCEPT !.rtl = prev.runs[i].rtl]

(* C12: the classifier raises on no value: the empty string, None and      *)
(* every value that is not a string give the neutral verdict.              *)
C12_MalformedNeutral ==
    (cvalue.kind # "str" \/ cvalue.val = <<>>) => cresult = "neutral"

(* the Hebrew, Arabic, Arabic Supplement and Arabic Presentation Forms     *)
(* A and B blocks of Unicode                                               *)
ArabicHebrewBlocks ==
    (1424..1535) \cup (1536..1791) \cup (1872..1919)
        \cup (64336..65023) \cup (65136..65279)

(* C13: the verdict depends only on the characters of the Arabic/Hebrew    *)
(* blocks and the ASCII letters and digits of the text: it is the verdict  *)
(* of their two counts, whatever other characters the text holds, and a    *)
(* text that holds none of them is neutral.                                *)
C13_OnlyLettersCount ==
    LET a == CountIn(ctext, ArabicHebrewBlocks)
        l == CountIn(ctext, AsciiLettersDigits)
    IN  /\ (a + l = 0) => cverdict = "neutral"
        /\ (a + l > 0) => cverdict = Verdict(a, a + l)

(* what the formatter does to the runs of the scenario paragraph: a run    *)
(* holding 'X', '1' or '0' is wrapped in LRI .. PDI, a run holding Arabic  *)
(* letters and none of them gets one w:rtl = 1                             *)
ScenarioRuns ==
    \A i \in RunIndex :
        /\ contains_strong_latin(prev.runs[i].text) =>
              paragraph.runs[i].text = <<LRI>> \o prev.runs[i].text \o <<PDI>>
        /\ ArabicOnly(prev.runs[i].text) => paragraph.runs[i].rtl = <<"1">>

(* C14 as stated: the scenario text, 9 Arabic-class and 3 Latin-class      *)
(* characters, is classified mixed, with the runs treated as ScenarioRuns  *)
(* says.                                                                   *)
C14_ScenarioMixed ==
    last.op = "smart" => (last.direction = "mixed" /\ ScenarioRuns)

(* C14: the scenario text, 9 Arabic-class and 3 Latin-class characters     *)
(* (ratio 0.75), is classified rtl; however it is cut into runs, each run  *)
(* holding 'X', '1' or '0' is wrapped in LRI .. PDI and each Arabic-only   *)
(* run gets run-level RTL.                                                 *)
C14_ScenarioRtl ==
    /\ CountIn(ScenarioText, ArabicClassChars) = 9
    /\ CountIn(ScenarioText, LatinClassChars) = 3
    /\ last.op = "smart" => (last.direction = "rtl" /\ ScenarioRuns)

C14_Witness ==
    /\ last.op = "smart"
    /\ Len(prev.runs) = 4
    /\ prev.runs[2].text = <<88>>
    /\ prev.runs[4].text = <<49, 48>>
    /\ paragraph.runs[2].text = <<LRI, 88, PDI>>
    /\ paragraph.runs[4].text = <<LRI, 49, 48, PDI>>
    /\ paragraph.runs[1].rtl = <<"1">>
    /\ paragraph.runs[3].rtl = <<"1">>

(* C15: a smart call whose verdict is rtl or mixed adds the paragraph's    *)
(* w:bidi property; it adds the w:bidiVisual (visual order off) property   *)
(* when the verdict is mixed and for no other verdict; with the verdict    *)
(* ltr or neutral it adds neither.                                         *)
C15_ParagraphProps ==
    last.op = "smart" =>
        /\ last.direction \in {"rtl", "mixed"} => paragraph.bidi = prev.bidi + 1
        /\ last.direction \in {"ltr", "neutral"} => paragraph.bidi = prev.bidi
        /\ last.direction = "mixed" => paragraph.bidiVisual = prev.bidiVisual + 1
        /\ last.direction # "mixed" => paragraph.bidiVisual = prev.bidiVisual

C15_Witness ==
    /\ SmartUnder({"mixed"})
    /\ prev.bidi = 0 /\ prev.bidiVisual = 0
    /\ paragraph.bidi = 1 /\ paragraph.bidiVisual = 1

(* the cell the placement rule gives choice i in a grid cols wide *)
RuleCell(i, cols) == <<i \div cols, cols - 1 - (i % cols)>>

Rendered == {grid.order[k] : k \in 1..Len(grid.order)}

(* C16: in a rows x cols grid every rendered choice i sits in cell         *)
(* (i div cols, cols-1-(i mod cols)); in the 2x2 grid choice 0 is top      *)
(* right, 1 top left, 2 bottom right, 3 bottom left; no two choices share  *)
(* a cell; the choices are rendered in increasing index order, and when    *)
(* the renderer returns the first min(rows*cols, number of choices)        *)
(* choices are the ones rendered.                                          *)
C16_Placement ==
    /\ \A i \in Rendered :
          /\ i < grid.rows * grid.cols
          /\ grid.cells[RuleCell(i, grid.cols)].choice = <<i>>
    /\ (grid.rows = 2 /\ grid.cols = 2) =>
          /\ 0 \in Rendered => grid.cells[<<0, 1>>].choice = <<0>>
          /\ 1 \in Rendered => grid.cells[<<0, 0>>].choice = <<1>>
          /\ 2 \in Rendered => grid.cells[<<1, 1>>].choice = <<2>>
          /\ 3 \in Rendered => grid.cells[<<1, 0>>].choice = <<3>>
    /\ Cardinality({c \in DOMAIN grid.cells : grid.cells[c].choice # <<>>})
          = Len(grid.order)
    /\ \A k \in 1..Len(grid.order) : grid.order[k] = k - 1
    /\ grid.pc = "done" =>
          Len(grid.order) = Min(grid.rows * grid.cols, grid.nchoices)

C16_Witness ==
    /\ grid.pc = "done"
    /\ grid.rows = 2 /\ grid.cols = 3 /\ grid.nchoices = 5
    /\ grid.cells[<<0, 2>>].choice = <<0>>
    /\ grid.cells[<<1, 1>>].choice = <<4>>
    /\ grid.cells[<<1, 0>>].choice = <<>>

Highlighted(c) == grid.cells[c].background = "yellow_highlight"

(* C17: a rendered choice cell has the highlight background and bold text  *)
(* iff an answer key is supplied and equals the cell's choice index; with  *)
(* no answer key no cell is highlighted; at most one cell of the grid is   *)
(* highlighted.                                                            *)
C17_Highlight ==
    /\ \A c \in DOMAIN grid.cells :
          /\ grid.cells[c].choice # <<>> =>
                /\ Highlighted(c) <=> grid.cells[c].choice = grid.answer_key
                /\ grid.cells[c].bold <=> grid.cells[c].choice = grid.answer_key
          /\ grid.answer_key = <<>> => ~Highlighted(c) /\ ~grid.cells[c].bold
    /\ Cardinality({c \in DOMAIN grid.cells : Highlighted(c)}) <= 1

C17_Witness ==
    /\ grid.pc = "done"
    /\ grid.rows = 2 /\ grid.cols = 2
    /\ grid.answer_key = <<0>>
    /\ Highlighted(<<0, 1>>) /\ grid.cells[<<0, 1>>].bold
    /\ \A c \in DOMAIN grid.cells :
          c # <<0, 1>> => grid.cells[c].background = "light_gray"

(* C18: the title, section header, sidebar box and choice cell call sites  *)
(* pass preserve_alignment = TRUE and their paragraphs are CENTER-aligned  *)
(* after the call, whatever the text; the question and essay question      *)
(* call sites pass preserve_alignment = FALSE.                             *)
C18_CenteredStay ==
    /\ site \in {"title", "section_header", "sidebar_section", "choice_cell"} =>
          (last.preserve /\ paragraph.alignment = "CENTER")
    /\ site \in {"question_header", "essay_question"} => ~last.preserve

(* the renderer calls of a whole generate(), in document order: question   *)
(* j (from 0) of the multiple-choice list carries number j + 1, question j *)
(* of the essay list number m + j + 1                                      *)
DocumentOrder(m, e, sidebar) ==
    <<Call("header")>>
        \o (IF m > 0 THEN <<Call("mc_section")>> ELSE <<>>)
        \o [j \in 1..m |-> [call |-> "mc_question", index |-> j - 1, number |-> j]]
        \o (IF e > 0 THEN <<Call("essay_section")>> ELSE <<>>)
        \o [j \in 1..e |-> [call |-> "essay_question", index |-> j - 1,
                              number |-> m + j]]
        \o (IF sidebar THEN <<Call("sidebar")>> ELSE <<>>)

IsPrefix(a, b) == Len(a) <= Len(b) /\ a = SubSeq(b, 1, Len(a))

(* C19: the renderer calls of generate are always a prefix of: header,     *)
(* multiple-choice section with its questions in input order, essay        *)
(* section with its questions in input order, sidebar when present; when   *)
(* generate returns all of them have been made; the numbers handed to the  *)
(* questions are 1..m and m+1..m+e, none skipped or repeated.              *)
C19_DocumentOrder ==
    LET whole == DocumentOrder(doc.m, doc.e, doc.sidebar)
        numbers == SelectSeq(doc.log, LAMBDA c : c.number > 0)
    IN  /\ IsPrefix(doc.log, whole)
        /\ doc.pc = "done" => doc.log = whole
        /\ \A k \in 1..Len(numbers) : numbers[k].number = k
        /\ doc.pc = "done" => Len(numbers) = doc.m + doc.e

C19_Witness ==
    /\ doc.pc = "done"
    /\ doc.m = 2 /\ doc.e = 2 /\ doc.sidebar
    /\ Len(doc.log) = 8
    /\ doc.log[3] = [call |-> "mc_question", index |-> 0, number |-> 1]
    /\ doc.log[7] = [call |-> "essay_question", index |-> 1, number |-> 4]
    /\ doc.log[8] = Call("sidebar")

(* C20: however the statements of two calls on distinct paragraphs         *)
(* interleave, a call that has returned leaves its paragraph exactly as    *)
(* the call run alone on that paragraph leaves it, a call that has not     *)
(* started has not had its paragraph touched, and the punctuation map is   *)
(* what it was.                                                            *)
C20_Isolated ==
    /\ \A t \in Threads :
          LET c == threads.call[t]
          IN  /\ c.pc = "done" =>
                    c.p = apply_smart_rtl_to_paragraph(c.orig, c.arg, c.preserve)
              /\ c.pc = "detect" => c.p = c.orig
    /\ threads.punct_map = ARABIC_PUNCT_MAP

C20_Witness ==
    /\ threads.call[1].pc = "done" /\ threads.call[1].direction = "rtl"
    /\ threads.call[2].pc = "runs" /\ threads.call[2].direction = "mixed"
    /\ threads.call[2].i = 2
    /\ Len(threads.call[1].p.runs) = 2
    /\ threads.call[1].p.runs[1].text = <<1575, 1548>>
    /\ threads.call[2].p.runs[1].text = <<LRI, 88, PDI>>

Markers == {LRI, RLI, PDI, RLM}

(* the text with the directional markers LRI, RLI, PDI, RLM taken out *)
StripMarkers(text) == SelectSeq(text, LAMBDA c : c \notin Markers)

MarkerFree(text) == CountIn(text, Markers \cup {LRM}) = 0

(* C21: for a run whose text holds no directional marker, taking the       *)
(* markers LRI, RLI, PDI, RLM out of the text a smart call leaves in the   *)
(* run gives back the run's text, or that text with its ASCII punctuation  *)
(* replaced by the Arabic punctuation; for a run without ASCII punctuation *)
(* (such as LRI + letters + PDI) it gives back the text itself.            *)
C21_RoundTrip ==
    last.op = "smart" =>
        \A i \in RunIndex :
            MarkerFree(prev.runs[i].text) =>
                LET back == StripMarkers(paragraph.runs[i].text)
                IN  /\ back \in {prev.runs[i].text, WithArabicPunct(prev.runs[i].text)}
                    /\ CountIn(prev.runs[i].text, AsciiPunct) = 0 =>
                          back = prev.runs[i].text

C21_Witness ==
    /\ last.op = "smart"
    /\ Len(prev.runs) = 1
    /\ prev.runs[1].text = <<88, 88, 88>>
    /\ paragraph.runs[1].text = <<LRI, 88, 88, 88, PDI>>
    /\ StripMarkers(paragraph.runs[1].text) = <<88, 88, 88>>

(* C30: however many times the formatters are applied to a paragraph, it   *)
(* carries at most one paragraph-level w:bidi element.                     *)
C30_SingleBidi == paragraph.bidi <= 1

(* the questions of a data dict, whichever of its sections exist *)
AllQuestions(data) ==
    (IF "multiple_choice" \in DOMAIN data THEN data.multiple_choice.questions ELSE <<>>)
        \o (IF "essay" \in DOMAIN data THEN data.essay.questions ELSE <<>>)
        \o (IF "questions" \in DOMAIN data THEN data.questions ELSE <<>>)

(* C22: after _limit_questions_by_type, for each of the four question types
   T with count c the result holds all questions of type T when c = -1,
   none when c = 0, and exactly c of them, the first c in their original
   order, when c > 0. *)
C22_PerTypeLimits ==
    limit.pc = "limited" =>
        \A t \in QuestionTypes :
            LET have == OfType(AllQuestions(limit.data), t)
                orig == limit.db[t]
                c == limit.count[t]
            IN  /\ c = -1 => have = orig
                /\ c = 0 => have = <<>>
                /\ c > 0 => /\ Len(have) = c
                            /\ c <= Len(orig)
                            /\ have = SubSeq(orig, 1, c)

(* C23: the question bank produced with custom counts holds, for each type,
   no more questions than that type's count allows; with every count 0 it
   holds no question of the four types. *)
C23_QuestionBankCounts ==
    (limit.pc = "limited" /\ limit.output = "question_bank") =>
        \A t \in QuestionTypes :
            limit.count[t] # -1 =>
                Len(OfType(AllQuestions(limit.data), t)) <= limit.count[t]

(* C24: when artifacts of the document already exist in storage and
   override is false, create_all_documents returns the existing files with
   exists = true and performs no generation, upload, copy or delete. *)
C24_NoOverwrite ==
    (job.pc # "idle" /\ job.valid_uuid /\ job.listing # "no_service"
        /\ job.stored # {} /\ ~job.override) =>
        /\ job.ops = {}
        /\ job.pc = "returned" =>
              /\ job.response.exists
              /\ job.response.existing_files = job.stored

(* a finished create-all run that reached generation *)
JobGenerated == job.pc = "returned" /\ "results" \in DOMAIN job

(* C27: after a create-all run that reached generation each of the five
   artifacts is in exactly one of created_files and errors, so
   successfully_created + failed = 5; the status is success iff all five
   were created, error iff none was and partial otherwise; the success flag
   is true iff at least one artifact was created. *)
C27_Accounting ==
    JobGenerated =>
        LET created == job.results.created_files
            errors == job.results.errors
        IN  /\ created \cup errors = ArtifactNames
            /\ created \cap errors = {}
            /\ job.summary.successfully_created + job.summary.failed = 5
            /\ job.results.status = "success" <=> created = ArtifactNames
            /\ job.results.status = "error" <=> created = {}
            /\ job.results.status \in {"success", "error", "partial"}
            /\ job.response.success <=> created # {}

C27_Witness ==
    /\ JobGenerated
    /\ Cardinality(job.results.created_files) = 3
    /\ Cardinality(job.results.errors) = 2
    /\ job.results.status = "partial"
    /\ job.response.success

(* C25: convert_docx_to_pdf calls the methods in the order unoconv,
   LibreOffice, docx2pdf, comtypes, fallback copy; a method that returns
   false or raises is followed by the next one; no method is called after
   the first that succeeds; the call returns true iff one method returned
   true (so false when the fallback copy was reached), never raises, and a
   watermark failure leaves the true result unchanged. *)
C25_StrategyOrder ==
    pdf.pc # "idle" =>
        LET n == Len(pdf.tried)
        IN  /\ IsPrefix(pdf.tried, methods)
            /\ \A k \in 1 .. n - 1 : pdf.outcome[k] # "true"
            /\ pdf.pc # "loop" =>
                  (n = Len(methods) \/ pdf.outcome[n] = "true")
            /\ pdf.pc = "returned" =>
                  /\ ~pdf.raised
                  /\ pdf.result <=> (\E k \in 1 .. n : pdf.outcome[k] = "true")
                  /\ pdf.tried[n] = "_fallback_to_copy" => ~pdf.result

C25_Witness ==
    /\ pdf.pc = "returned"
    /\ pdf.tried = SubSeq(methods, 1, 3)
    /\ pdf.outcome[1] = "raises"
    /\ pdf.outcome[2] = "false"
    /\ pdf.watermark = "raises"
    /\ pdf.result

AllRenderingsFailed ==
    /\ Len(mindmap.log) = PlaywrightAttempts
    /\ \A k \in 1 .. Len(mindmap.log) : mindmap.log[k] # "ok"

MindmapRetrySafe ==
    mindmap.pc # "idle" =>
        /\ Len(mindmap.log) <= 3
        /\ \A k \in 1 .. Len(mindmap.log) - 1 : mindmap.log[k] # "ok"
        /\ mindmap.pc = "returned" =>
              /\ mindmap.fallback_used <=> AllRenderingsFailed
              /\ mindmap.status \in {"success", "error"}
              /\ ~mindmap.raised
              /\ mindmap.status = "success" => mindmap.uploaded

(* C26: generate_mindmap_image_and_upload makes at most 3 browser rendering
   attempts and none after the first success; it uses the fallback image
   generator iff all 3 attempts failed; it always terminates, returning a
   status dictionary (success or error) without raising, and the status is
   success only when the upload succeeded. *)
C26_Retry == []MindmapRetrySafe /\ <>(mindmap.pc = "returned")

C26_Witness ==
    /\ mindmap.pc = "returned"
    /\ mindmap.log = <<"timeout", "raises", "timeout">>
    /\ mindmap.sleeps = 2
    /\ mindmap.fallback_used
    /\ mindmap.status = "success"

(* every 'answer_key' and 'answer' field of d, at any depth, is None *)
RECURSIVE AnswersNone(_)
AnswersNone(d) ==
    IF d.kind = "dict"
    THEN \A k \in DOMAIN d.items :
            IF k \in AnswerFields THEN d.items[k] = PyNone
            ELSE AnswersNone(d.items[k])
    ELSE IF d.kind = "list"
    THEN \A i \in DOMAIN d.items : AnswersNone(d.items[i])
    ELSE TRUE

(* a and b have the same shape and agree on every field that is not an
   answer field *)
RECURSIVE SameElsewhere(_, _)
SameElsewhere(a, b) ==
    IF a.kind # b.kind THEN FALSE
    ELSE IF a.kind = "dict"
    THEN /\ DOMAIN a.items = DOMAIN b.items
         /\ \A k \in DOMAIN a.items :
               k \notin AnswerFields => SameElsewhere(a.items[k], b.items[k])
    ELSE IF a.kind = "list"
    THEN /\ Len(a.items) = Len(b.items)
         /\ \A i \in DOMAIN a.items : SameElsewhere(a.items[i], b.items[i])
    ELSE a = b

(* d with every answer field given the value v *)
RECURSIVE WithAnswers(_, _)
WithAnswers(d, v) ==
    IF d.kind = "dict"
    THEN PyDict([k \in DOMAIN d.items |->
                    IF k \in AnswerFields THEN v ELSE WithAnswers(d.items[k], v)])
    ELSE IF d.kind = "list"
    THEN PyList([i \in DOMAIN d.items |-> WithAnswers(d.items[i], v)])
    ELSE d

(* C28: after the answer removal every 'answer_key' and 'answer' field of
   the no-solutions data, at any nesting depth, is None and every other
   field equals the original; an input that differs from the original only
   in its answers gives the same no-solutions data; a choice cell rendered
   without an answer key is not highlighted; the with-solutions copy and
   the original data are unchanged. *)
C28_AnswerRemoval ==
    answers.pc = "removed" =>
        LET out == answers.heap[answers.data_no_solutions]
        IN  /\ AnswersNone(out)
            /\ SameElsewhere(out, answers.original)
            /\ out = remove_answers(WithAnswers(answers.original, answers.other))
            /\ \A index \in 0 .. 3 :
                  render_single_choice(index, <<>>).background # "yellow_highlight"
            /\ answers.heap[answers.data_with_solutions] = answers.original
            /\ answers.heap[answers.data] = answers.original

C28_Witness ==
    /\ answers.pc = "removed"
    /\ answers.original =
          Section(PyDict([question |-> PyList(<<PyInt(1)>>), answer_key |-> PyInt(1)]))
    /\ answers.heap[answers.data_no_solutions] =
          Section(PyDict([question |-> PyList(<<PyInt(1)>>), answer_key |-> PyNone]))
    /\ answers.heap[answers.data_with_solutions] = answers.original

(* C29: for every input that validate_data reports valid, create_worksheet
   on the same input does not fail with a data validation error: it builds
   the WorksheetData and returns status success. *)
C29_ValidationAgrees ==
    (service.pc = "created" /\ service.valid) => service.result = "success"

====
